---- MODULE Spec2Model ----
(***************************************************************************)
(* Annotation front end of the Drizz UI annotation tool.                   *)
(*                                                                         *)
(* The repository carries these component trees:                           *)
(*   "app"     App.jsx (AnnotationTool) with BoundingBoxOverlay: uploads   *)
(*             through the backend, the visibility set visibleBoxes lives  *)
(*             in the overlay, saves go to /api/save-annotations;          *)
(*   "overlay" the same BoundingBoxOverlay from the moment App has mounted *)
(*             it, with the props it was mounted with, seen together with  *)
(*             its canvas: the Images of the draw effect and what they     *)
(*             paint.  In "app" the canvas is not observed;                *)
(*   "utils"   the utility modules (colorMapping, canvasUtils, apiClient,  *)
(*             parseBounds) called on their own;                           *)
(*   "project" App.jsx as in "app", seen together with the row the backend *)
(*             stored for the project of the last JSON upload; only the    *)
(*             uploads and the two buttons that open and close the         *)
(*             annotation view run in it;                                  *)
(*   "backend" the identity generation of the backend and the table        *)
(*             original_inputs, as the README gives them;                  *)
(*   "context" AppProvider (appState) with BoundingBoxCanvas: the          *)
(*             selection selectedElements lives in the context store, the  *)
(*             canvas scales, hit-tests and redraws.                       *)
(* A behaviour runs one of the two trees; the variable tree says which.    *)
(* The variables of the other tree keep their initial values.              *)
(*                                                                         *)
(* Element ids are the keys of the uploaded dump; they are modelled as     *)
(* positive integers.  0 stands for null (no image, no project id, no      *)
(* hovered element).  Scales are exact fractions [n, d].                   *)
(***************************************************************************)
EXTENDS Integers, Sequences, FiniteSets, TLC

VARIABLES
  tree,              \* "app", "overlay", "context" or "utils": what runs
  \* ---- App.jsx / AnnotationTool
  uploadedImage,     \* useState(null): 0 or the uploaded image
  uiElements,        \* useState([]): the element list
  currentProjectId,  \* useState(null): 0 or the project id
  currentShortId,    \* useState(null): 0 or the short id
  showBounds,        \* useState(false)
  isLoading,         \* useState(false)
  upload,            \* the upload request in flight, kind "none" when there is none
  \* ---- BoundingBoxOverlay
  visibleBoxes,      \* useState(new Set(ids)); {} while the overlay is not mounted
  saveReqs,          \* save actions waiting for the answer of /api/save-annotations
  decodes,           \* the Images of the draw effect that have not loaded yet
  overlayCanvas,     \* what the overlay's canvas shows
  \* ---- AppProvider / BoundingBoxCanvas
  appState,          \* the context store
  scale,             \* useState(1)
  hoveredElement,    \* useState(null)
  isImageLoaded,     \* useState(false)
  imgPending,        \* the Image of the image-load effect has neither loaded nor failed
  drawn,             \* what the last drawCanvas put on the canvas
  redraws,           \* how often drawCanvas ran in the last step
  imageUploads,      \* the requests of ImageUpload waiting for their answer, in the order they were sent
  \* ---- backend
  backend,           \* the clock of the server and the rows of original_inputs
  \* ---- observation
  ret                \* what the handler that ran last did; op "none" otherwise

vars == <<tree, uploadedImage, uiElements, currentProjectId, currentShortId,
          showBounds, isLoading, upload, visibleBoxes, saveReqs, decodes, overlayCanvas,
          appState, scale, hoveredElement, isImageLoaded, imgPending, drawn, redraws,
          imageUploads, backend, ret>>

appVars == <<uploadedImage, uiElements, currentProjectId, currentShortId,
             showBounds, isLoading, upload, visibleBoxes, saveReqs, decodes, overlayCanvas>>

ctxVars == <<appState, scale, hoveredElement, isImageLoaded, imgPending, drawn, redraws,
             imageUploads, backend>>

\* the canvas of the overlay and the decodes that will paint it
drawVars == <<decodes, overlayCanvas>>

(***************************************************************************)
(* Bounds of the model.                                                    *)
(***************************************************************************)
MaxDumpIds == 2        \* element ids 1..MaxDumpIds occur in the dumps of the app tree
MaxCanvasIds == 3      \* element ids 1..MaxCanvasIds occur in the context store
MaxListLen == 2        \* longest element list
MaxImages == 1         \* image files 1..MaxImages of the app tree
MaxCanvasImages == 1   \* images 1..MaxCanvasImages of the context tree
MaxProjects == 1       \* project ids 1..MaxProjects
MaxSavesInFlight == 1  \* save requests waiting for an answer at the same time
MaxCoord == 3          \* pointer positions 0..MaxCoord on both axes
MaxDecodes == 2        \* Images of the overlay's draw effect loading at the same time
MaxUploadsInFlight == 2 \* requests of ImageUpload waiting for their answer at the same time
MaxClock == 2          \* readings 0..MaxClock of the server's clock
MaxContents == 2       \* image contents 1..MaxContents sent to the backend
MaxRows == 2           \* rows of original_inputs
MaxRetries == 3        \* maxRetries of retryRequest is in 0..MaxRetries

NoRet == [op |-> "none"]
NoUpload == [kind |-> "none", file |-> 0, image |-> 0]

(***************************************************************************)
(* Elements.  An element of a dump: id and bounds in image pixels.         *)
(***************************************************************************)
BoundsOf(i) ==
  CASE i = 1 -> [x1 |-> 0, y1 |-> 0, x2 |-> 2, y2 |-> 2]
    [] i = 2 -> [x1 |-> 1, y1 |-> 1, x2 |-> 3, y2 |-> 3]
    [] i = 3 -> [x1 |-> 0, y1 |-> 0, x2 |-> 120, y2 |-> 60]
    [] OTHER -> [x1 |-> 3, y1 |-> 0, x2 |-> 4, y2 |-> 1]

ElementOf(i) == [id |-> i, bounds |-> BoundsOf(i)]

\* element lists with pairwise different ids (ids are the keys of one JSON object)
ElementLists(n) ==
  LET pool == {ElementOf(i) : i \in 1..n}
      all  == UNION {[1..m -> pool] : m \in 0..MaxListLen}
  IN  {s \in all : \A i, j \in DOMAIN s : i # j => s[i].id # s[j].id}

DumpFiles == ElementLists(MaxDumpIds)
ImageFiles == 1..MaxImages
ProjectIds == 1..MaxProjects

\* elements.map(el => el.id) as a Set
IdSet(elements) == {elements[i].id : i \in DOMAIN elements}

\* Array.prototype.filter(element => set.has(element.id))
RECURSIVE FilterVisible(_, _)
FilterVisible(elements, set) ==
  IF elements = <<>> THEN <<>>
  ELSE LET rest == FilterVisible(Tail(elements), set)
       IN  IF Head(elements).id \in set THEN <<Head(elements)>> \o rest ELSE rest


(***************************************************************************)
(* BoundingBoxOverlay: the export data.                                    *)
(***************************************************************************)
\* one entry of the annotations array
AnnotationOf(element) ==
  [id |-> element.id,
   bounding_box |-> [x1 |-> element.bounds.x1, y1 |-> element.bounds.y1,
                     x2 |-> element.bounds.x2, y2 |-> element.bounds.y2,
                     width |-> element.bounds.x2 - element.bounds.x1,
                     height |-> element.bounds.y2 - element.bounds.y1]]

\* Math.max(...selectedElements.map(el => el.bounds[f])), or dflt when nothing is selected
MaxOf(selected, f, dflt) ==
  IF selected = <<>> THEN dflt
  ELSE CHOOSE m \in {selected[i].bounds[f] : i \in DOMAIN selected} :
         \A i \in DOMAIN selected : selected[i].bounds[f] <= m

AnnotationData_Unfiltered(elements, visible) ==
  [image_info |-> [width |-> MaxOf(elements, "x2", 1080), height |-> MaxOf(elements, "y2", 1920)],
   annotations |-> [i \in 1..Len(elements) |-> AnnotationOf(elements[i])],
   total_elements |-> Len(elements)]

\* saveAnnotationsToDatabase: selectedElements and annotationData
AnnotationData(elements, visible) ==
  LET selectedElements == FilterVisible(elements, visible)
  IN  [image_info |-> [width |-> MaxOf(selectedElements, "x2", 1080),
                       height |-> MaxOf(selectedElements, "y2", 1920)],
       annotations |-> [i \in 1..Len(selectedElements) |-> AnnotationOf(selectedElements[i])],
       total_elements |-> Len(selectedElements)]

\* saveSelectedJSON: selectedElements and annotationData of the downloaded file
JsonExportData(elements, visible) ==
  LET selectedElements == FilterVisible(elements, visible)
  IN  [image_info |-> [width |-> MaxOf(selectedElements, "x2", 1080),
                       height |-> MaxOf(selectedElements, "y2", 1920)],
       annotations |-> [i \in 1..Len(selectedElements) |-> AnnotationOf(selectedElements[i])],
       total_elements |-> Len(selectedElements)]

(***************************************************************************)
(* App.jsx: the annotation section, and with it the overlay, is rendered   *)
(* when showBounds && uploadedImage && uiElements.length > 0.              *)
(***************************************************************************)
OverlayRendered(sb, img, els) == sb /\ img # 0 /\ Len(els) > 0

\* the trees in which App runs, and those in which the overlay can be mounted
AppTrees == {"app", "project"}
OverlayTrees == {"app", "overlay", "project"}

Mounted == tree \in OverlayTrees /\ OverlayRendered(showBounds, uploadedImage, uiElements)

\* The overlay's state after App re-renders with new props: a newly mounted
\* overlay runs the useState initializer, a mounted one keeps its state, an
\* unmounted one has none.
OverlayState(sb, img, els) ==
  IF ~OverlayRendered(sb, img, els) THEN {}
  ELSE IF Mounted THEN visibleBoxes
  ELSE IdSet(els)

(***************************************************************************)
(* BoundingBoxOverlay: the draw effect.  Every run of the effect makes a   *)
(* new Image whose onload paints the canvas from the elements and          *)
(* visibleBoxes of the render the effect ran in.  A decode is the sequence *)
(* of ids its onload will outline; the effect has no cleanup, so the       *)
(* Images of earlier runs stay alive and load in any order.                *)
(***************************************************************************)
\* the ids of the elements of the list that are in the set, in list order
VisibleIds(elements, selected) ==
  LET vis == FilterVisible(elements, selected)
  IN  [i \in 1..Len(vis) |-> vis[i].id]

BlankCanvas == [painted |-> FALSE, boxes |-> <<>>]

\* the Images loading after the effect ran with these elements and visibleBoxes
DrawEffect(pending, elements, visible) == pending \cup {VisibleIds(elements, visible)}

\* The overlay re-renders with a new visibleBoxes and the draw effect runs
\* again: its dependencies are [imageSrc, elements, visibleBoxes].
OverlayDraw(visible) ==
  IF tree = "overlay"
    THEN /\ decodes' = DrawEffect(decodes, uiElements, visible)
         /\ overlayCanvas' = overlayCanvas
         /\ Cardinality(decodes') <= MaxDecodes
    ELSE UNCHANGED drawVars

\* image.onload of one of the Images
overlayImageOnload(boxes) ==
  /\ tree = "overlay"
  /\ boxes \in decodes
  /\ decodes' = decodes \ {boxes}
  /\ overlayCanvas' = [painted |-> TRUE, boxes |-> boxes]
  /\ ret' = [op |-> "overlayImageOnload"]
  /\ UNCHANGED <<tree, uploadedImage, uiElements, currentProjectId, currentShortId,
                 showBounds, isLoading, upload, visibleBoxes, saveReqs>>
  /\ UNCHANGED ctxVars

(***************************************************************************)
(* App.jsx: uploads.  The file inputs are rendered while !showBounds and   *)
(* are disabled while isLoading.                                           *)
(***************************************************************************)
UploadOutcomes == {"reject", "notOk", "badBody", "fail", "success"}

CanPickFile == tree \in AppTrees /\ ~showBounds /\ ~isLoading

handleImageUploadStart(file) ==
  /\ CanPickFile
  /\ isLoading' = TRUE
  /\ upload' = [kind |-> "image", file |-> file, image |-> 0]
  /\ ret' = [op |-> "handleImageUpload", outcome |-> "sent"]
  /\ UNCHANGED drawVars
  /\ UNCHANGED <<tree, uploadedImage, uiElements, currentProjectId, currentShortId,
                 showBounds, visibleBoxes, saveReqs>>
  /\ UNCHANGED ctxVars

LoadingAfter_StuckOnError(outcome) == outcome # "success"

\* setIsLoading(false) follows the try statement, whose catch ends normally:
\* it runs after the success branch and after every throw
LoadingAfter(outcome) == FALSE

handleImageUploadResponse(outcome) ==
  /\ tree \in AppTrees
  /\ upload.kind = "image"
  /\ uploadedImage' = IF outcome = "success" THEN upload.file ELSE uploadedImage
  /\ visibleBoxes' = OverlayState(showBounds, uploadedImage', uiElements)
  /\ UNCHANGED drawVars
  /\ isLoading' = LoadingAfter(outcome)
  /\ upload' = NoUpload
  /\ ret' = [op |-> "handleImageUpload", outcome |-> outcome]
  /\ UNCHANGED <<tree, uiElements, currentProjectId, currentShortId, showBounds, saveReqs>>
  /\ UNCHANGED ctxVars

JsonUploadElements_LostOnError(outcome, elements) ==
  IF outcome = "success" THEN elements ELSE <<>>

\* handleJsonUpload: setUiElements(result.elements) in the success branch only
JsonUploadElements(outcome, elements) ==
  IF outcome = "success" THEN elements ELSE uiElements

handleJsonUploadStart(file) ==
  /\ CanPickFile
  /\ isLoading' = TRUE
  /\ upload' = [kind |-> "json", file |-> file, image |-> uploadedImage]
  /\ ret' = [op |-> "handleJsonUpload", outcome |-> "sent"]
  /\ UNCHANGED drawVars
  /\ UNCHANGED <<tree, uploadedImage, uiElements, currentProjectId, currentShortId,
                 showBounds, visibleBoxes, saveReqs>>
  /\ UNCHANGED ctxVars

\* project_id is the id the backend gave the new project, 0 when the answer
\* carries none; short_id comes with it.  The backend has stored the project
\* with the image data and the dump that the request carried; the tree
\* "project" keeps this row.
handleJsonUploadResponse(outcome, project_id) ==
  /\ tree \in AppTrees
  /\ upload.kind = "json"
  /\ uiElements' = JsonUploadElements(outcome, upload.file)
  /\ IF outcome = "success" /\ project_id # 0
       THEN currentProjectId' = project_id /\ currentShortId' = project_id
       ELSE UNCHANGED <<currentProjectId, currentShortId>>
  /\ visibleBoxes' = OverlayState(showBounds, uploadedImage, uiElements')
  /\ UNCHANGED drawVars
  /\ isLoading' = LoadingAfter(outcome)
  /\ upload' = NoUpload
  /\ backend' = IF tree = "project" /\ outcome = "success" /\ project_id # 0
                  THEN [backend EXCEPT !.rows = {r \in @ : r.id # project_id} \cup
                          {[id |-> project_id, image |-> upload.image, elements |-> upload.file]}]
                  ELSE backend
  /\ ret' = [op |-> "handleJsonUpload", outcome |-> outcome]
  /\ UNCHANGED <<tree, uploadedImage, showBounds, saveReqs>>
  /\ UNCHANGED <<appState, scale, hoveredElement, isImageLoaded, imgPending, drawn, redraws,
                 imageUploads>>

\* the Start Annotation button: onClick={() => setShowBounds(true)}
StartAnnotation ==
  /\ tree \in AppTrees
  /\ ~showBounds /\ uploadedImage # 0 /\ Len(uiElements) > 0
  /\ showBounds' = TRUE
  /\ visibleBoxes' = OverlayState(TRUE, uploadedImage, uiElements)
  /\ UNCHANGED drawVars
  /\ ret' = [op |-> "startAnnotation"]
  /\ UNCHANGED <<tree, uploadedImage, uiElements, currentProjectId, currentShortId,
                 isLoading, upload, saveReqs>>
  /\ UNCHANGED ctxVars

\* the Back to Upload button: onClick={() => setShowBounds(false)}
BackToUpload ==
  /\ tree \in AppTrees
  /\ Mounted
  /\ showBounds' = FALSE
  /\ visibleBoxes' = {}
  /\ UNCHANGED drawVars
  /\ ret' = [op |-> "backToUpload"]
  /\ UNCHANGED <<tree, uploadedImage, uiElements, currentProjectId, currentShortId,
                 isLoading, upload, saveReqs>>
  /\ UNCHANGED ctxVars


(***************************************************************************)
(* BoundingBoxOverlay: the visibility set.                                 *)
(***************************************************************************)
\* the updater of toggleBox
ToggledSet(prev, id) == IF id \in prev THEN prev \ {id} ELSE prev \cup {id}

\* a checkbox of the element list: onChange={() => toggleBox(element.id)}
toggleBox(id) ==
  /\ Mounted
  /\ id \in IdSet(uiElements)
  /\ visibleBoxes' = ToggledSet(visibleBoxes, id)
  /\ OverlayDraw(visibleBoxes')
  /\ ret' = [op |-> "toggleBox"]
  /\ UNCHANGED <<tree, uploadedImage, uiElements, currentProjectId, currentShortId,
                 showBounds, isLoading, upload, saveReqs>>
  /\ UNCHANGED ctxVars

SelectAllSet_KeepsPrev(elements, prev) == prev

\* selectAll: new Set(elements.map((el) => el.id))
SelectAllSet(elements, prev) == IdSet(elements)

selectAll ==
  /\ Mounted
  /\ visibleBoxes' = SelectAllSet(uiElements, visibleBoxes)
  /\ OverlayDraw(visibleBoxes')
  /\ ret' = [op |-> "selectAll", afterDeselectAll |-> (ret.op = "deselectAll")]
  /\ UNCHANGED <<tree, uploadedImage, uiElements, currentProjectId, currentShortId,
                 showBounds, isLoading, upload, saveReqs>>
  /\ UNCHANGED ctxVars

deselectAll ==
  /\ Mounted
  /\ visibleBoxes' = {}
  /\ OverlayDraw({})
  /\ ret' = [op |-> "deselectAll"]
  /\ UNCHANGED <<tree, uploadedImage, uiElements, currentProjectId, currentShortId,
                 showBounds, isLoading, upload, saveReqs>>
  /\ UNCHANGED ctxVars

(***************************************************************************)
(* BoundingBoxOverlay: saving.  A save action is one run of saveImage, of  *)
(* saveSelectedJSON or of saveAnnotationsToDatabase; its record says what  *)
(* it did:                                                                 *)
(*   op             the handler                                            *)
(*   projectId      the projectId prop of the render it ran in             *)
(*   download       "ok", "throws" (a step of the file download threw),    *)
(*                  "canvas" (no canvas), "none" (the handler has none)    *)
(*   file           <<data>> for the JSON file that was downloaded         *)
(*   dbCalled       saveAnnotationsToDatabase was called                   *)
(*   sent           the bodies of the requests to /api/save-annotations    *)
(*   outcome        how the request ended, "none" before that              *)
(*   alert          the alert shown: "none", "local", "canvas", "success", *)
(*                  "failure"                                              *)
(*   result         what saveAnnotationsToDatabase returned: "true",       *)
(*                  "false", "pending", or "notCalled"                     *)
(*   onSaveSuccess  the callback was called                                *)
(***************************************************************************)
SaveOutcomes == {"reject", "notOk", "badBody", "fail", "success"}
DownloadOutcomes == {"ok", "throws"}

SaveRecord(op, download, file) ==
  [op |-> op, projectId |-> currentProjectId, download |-> download, file |-> file,
   dbCalled |-> FALSE, sent |-> <<>>, outcome |-> "none", alert |-> "none",
   result |-> "notCalled", onSaveSuccess |-> FALSE]

DbSaveStart_NoGuard(rec) ==
  [rec EXCEPT !.dbCalled = TRUE, !.result = "pending",
              !.sent = Append(@, [project_id |-> rec.projectId,
                                  annotations |-> AnnotationData(uiElements, visibleBoxes)])]

\* saveAnnotationsToDatabase up to its first await: the record of the action
\* after the call, and whether a request is now in flight
DbSaveStart(rec) ==
  IF rec.projectId = 0
    THEN [rec EXCEPT !.dbCalled = TRUE, !.result = "false"]
    ELSE [rec EXCEPT !.dbCalled = TRUE, !.result = "pending",
                     !.sent = Append(@, [project_id |-> rec.projectId,
                                         annotations |-> AnnotationData(uiElements, visibleBoxes)])]

\* the auto-save step of saveImage and saveSelectedJSON
AutoSave(rec) ==
  IF rec.projectId # 0 THEN DbSaveStart(rec) ELSE [rec EXCEPT !.alert = "local"]

\* the action goes on waiting for its request, or has ended
Dispatch(rec) ==
  /\ \/ rec.result = "pending" /\ saveReqs' = Append(saveReqs, rec) /\ ret' = NoRet
     \/ rec.result # "pending" /\ saveReqs' = saveReqs /\ ret' = rec
  /\ UNCHANGED <<tree, uploadedImage, uiElements, currentProjectId, currentShortId,
                 showBounds, isLoading, upload, visibleBoxes>>
  /\ UNCHANGED drawVars
  /\ UNCHANGED ctxVars

CanSave == Mounted /\ Len(saveReqs) < MaxSavesInFlight

\* the canvas element is rendered together with the buttons
CanvasReady == Mounted

saveImage(download) ==
  /\ CanSave
  /\ Dispatch(IF ~CanvasReady
                THEN [SaveRecord("saveImage", "canvas", <<>>) EXCEPT !.alert = "canvas"]
                ELSE IF download = "throws"
                  THEN SaveRecord("saveImage", "throws", <<>>)
                  ELSE AutoSave(SaveRecord("saveImage", "ok", <<>>)))

saveSelectedJSON(download) ==
  /\ CanSave
  /\ Dispatch(IF download = "throws"
                THEN SaveRecord("saveSelectedJSON", "throws", <<>>)
                ELSE AutoSave(SaveRecord("saveSelectedJSON", "ok",
                                         <<JsonExportData(uiElements, visibleBoxes)>>)))

\* saveAnnotationsToDatabase called on its own
saveAnnotationsToDatabase ==
  /\ CanSave
  /\ Dispatch(DbSaveStart(SaveRecord("saveAnnotationsToDatabase", "none", <<>>)))

SaveFinished_Silent(rec, outcome) ==
  IF outcome \in {"success", "fail"}
    THEN [rec EXCEPT !.alert = "success", !.result = "true", !.onSaveSuccess = TRUE]
    ELSE [rec EXCEPT !.result = "false"]

\* saveAnnotationsToDatabase after the answer: the try block from the await on,
\* and the catch block
SaveFinished(rec, outcome) ==
  IF outcome = "success"
    THEN [rec EXCEPT !.alert = "success", !.result = "true", !.onSaveSuccess = TRUE]
    ELSE [rec EXCEPT !.alert = "failure", !.result = "false"]

\* the answer to the i-th waiting request arrives; handleSaveSuccess gets no
\* argument and changes nothing
saveResponse(i, outcome) ==
  /\ tree \in OverlayTrees
  /\ i \in DOMAIN saveReqs
  /\ LET rec == SaveFinished([saveReqs[i] EXCEPT !.outcome = outcome], outcome)
         rest == [j \in 1..(Len(saveReqs) - 1) |-> IF j < i THEN saveReqs[j] ELSE saveReqs[j + 1]]
     IN  saveReqs' = rest /\ ret' = rec
  /\ UNCHANGED <<tree, uploadedImage, uiElements, currentProjectId, currentShortId,
                 showBounds, isLoading, upload, visibleBoxes>>
  /\ UNCHANGED drawVars
  /\ UNCHANGED ctxVars


(***************************************************************************)
(* canvasUtils: scaling.  A scale is the fraction n/d in lowest terms.     *)
(***************************************************************************)
RECURSIVE Gcd(_, _)
Gcd(a, b) == IF b = 0 THEN a ELSE Gcd(b, a % b)

Frac(n, d) == LET g == Gcd(n, d) IN [n |-> n \div g, d |-> d \div g]
FracLeq(a, b) == a.n * b.d <= b.n * a.d
FracMin(a, b) == IF FracLeq(a, b) THEN a ELSE b
FracMax(a, b) == IF FracLeq(a, b) THEN b ELSE a
FracAdd(a, b) == Frac(a.n * b.d + b.n * a.d, a.d * b.d)
\* a - b for a >= b
FracSub(a, b) == Frac(a.n * b.d - b.n * a.d, a.d * b.d)

One == [n |-> 1, d |-> 1]
Tenth == [n |-> 1, d |-> 10]
MaxZoom == [n |-> 2, d |-> 1]
MinZoom == [n |-> 3, d |-> 10]

\* Math.round(v * s) for v >= 0: the nearest integer, halves upwards
RoundScaled(v, s) == (2 * v * s.n + s.d) \div (2 * s.d)

scaleCoordinates(bounds, s) ==
  [x1 |-> RoundScaled(bounds.x1, s), y1 |-> RoundScaled(bounds.y1, s),
   x2 |-> RoundScaled(bounds.x2, s), y2 |-> RoundScaled(bounds.y2, s)]

\* the comparison of handleCanvasClick and handleCanvasMouseMove (and isPointInBounds)
PointInScaled(x, y, bounds, s) ==
  LET scaledBounds == scaleCoordinates(bounds, s)
  IN  /\ x >= scaledBounds.x1
      /\ x <= scaledBounds.x2
      /\ y >= scaledBounds.y1
      /\ y <= scaledBounds.y2

RECURSIVE FindHit_Last(_, _, _, _, _)
FindHit_Last(elements, selected, s, x, y) ==
  IF elements = <<>> THEN 0
  ELSE LET e == elements[Len(elements)]
       IN  IF e.id \in selected /\ PointInScaled(x, y, e.bounds, s)
             THEN e.id
             ELSE FindHit_Last(SubSeq(elements, 1, Len(elements) - 1), selected, s, x, y)

\* uiElements.find(element => selectedElements.has(element.id) && the point is
\* in its scaled bounds): the id of the element found, 0 for undefined
RECURSIVE FindHit(_, _, _, _, _)
FindHit(elements, selected, s, x, y) ==
  IF elements = <<>> THEN 0
  ELSE LET e == Head(elements)
       IN  IF e.id \in selected /\ PointInScaled(x, y, e.bounds, s)
             THEN e.id
             ELSE FindHit(Tail(elements), selected, s, x, y)

(***************************************************************************)
(* BoundingBoxCanvas: drawCanvas.  The canvas after it: the ids of the     *)
(* elements whose outline was stroked, in drawing order, those that got a  *)
(* label, and the element the hover tooltip was drawn for (0: none).       *)
(***************************************************************************)
\* drawBoundingBox returns before drawing: "Skip tiny elements"
IsTiny(bounds, s) ==
  LET b == scaleCoordinates(bounds, s)
  IN  (b.x2 - b.x1 < 2) \/ (b.y2 - b.y1 < 2)

\* drawBoundingBox draws the label: showLabel && width > 50 && height > 20
HasLabel(bounds, s) ==
  LET b == scaleCoordinates(bounds, s)
  IN  (b.x2 - b.x1 > 50) /\ (b.y2 - b.y1 > 20)

RECURSIVE DrawBoxes(_, _, _)
DrawBoxes(elements, selected, s) ==
  IF elements = <<>> THEN <<>>
  ELSE LET e == Head(elements)
           rest == DrawBoxes(Tail(elements), selected, s)
       IN  IF e.id \in selected /\ ~IsTiny(e.bounds, s) THEN <<e.id>> \o rest ELSE rest

drawCanvas(elements, selected, s, hovered) ==
  [boxes |-> DrawBoxes(elements, selected, s),
   labels |-> {elements[i].id : i \in {j \in DOMAIN elements :
                  /\ elements[j].id \in selected
                  /\ ~IsTiny(elements[j].bounds, s)
                  /\ hovered = elements[j].id
                  /\ HasLabel(elements[j].bounds, s)}},
   tooltip |-> IF hovered # 0 /\ hovered \in IdSet(elements) THEN hovered ELSE 0]

Blank == [boxes |-> <<>>, labels |-> {}, tooltip |-> 0]

RedrawNeeded_NoHoverDep(stored, newScale, newHovered, newLoaded) ==
  stored \/ newScale # scale \/ newLoaded # isImageLoaded

\* The dependencies of the redraw effect: [uiElements, selectedElements,
\* isImageLoaded, scale, hoveredElement].  stored: the handler called
\* setAppState, which makes a new selectedElements Set.
RedrawNeeded(stored, newScale, newHovered, newLoaded) ==
  stored \/ newScale # scale \/ newHovered # hoveredElement \/ newLoaded # isImageLoaded

\* the redraw effect: if (isImageLoaded && canvasRef.current) drawCanvas()
Redraw(loaded, elements, selected, s, hovered) ==
  IF loaded THEN drawCanvas(elements, selected, s, hovered) ELSE drawn


(***************************************************************************)
(* AppProvider: the context store.                                         *)
(***************************************************************************)
CtxFrame == UNCHANGED <<tree, imageUploads, backend>> /\ UNCHANGED appVars

\* the state after a handler of the context tree: the store, the canvas
\* state, and the redraw effect that follows the render
CtxUpdate(newState, stored, newScale, newHovered, newLoaded) ==
  /\ imgPending' = (imgPending /\ ~newLoaded)
  /\ appState' = newState
  /\ scale' = newScale
  /\ hoveredElement' = newHovered
  /\ isImageLoaded' = newLoaded
  /\ IF RedrawNeeded(stored, newScale, newHovered, newLoaded)
       THEN /\ drawn' = Redraw(newLoaded, newState.uiElements, newState.selectedElements,
                               newScale, newHovered)
            /\ redraws' = IF newLoaded THEN 1 ELSE 0
       ELSE /\ drawn' = drawn
            /\ redraws' = 0
  /\ CtxFrame

\* the updater of toggleElement
ToggledState(prev, elementId) ==
  [prev EXCEPT !.selectedElements =
     IF elementId \in @ THEN @ \ {elementId} ELSE @ \cup {elementId}]

toggleElement(elementId) ==
  /\ tree = "context"
  /\ elementId \in IdSet(appState.uiElements)
  /\ CtxUpdate(ToggledState(appState, elementId), TRUE, scale, hoveredElement, isImageLoaded)
  /\ ret' = [op |-> "toggleElement"]

\* ElementChecklist: a click on the checkbox of an item.  The input's onChange
\* calls toggleElement, and the click bubbles to the row, whose onClick calls
\* toggleElement as well; each updater works on the state the other left.
checkboxClick(elementId) ==
  /\ tree = "context"
  /\ elementId \in IdSet(appState.uiElements)
  /\ CtxUpdate(ToggledState(ToggledState(appState, elementId), elementId), TRUE, scale,
               hoveredElement, isImageLoaded)
  /\ ret' = [op |-> "checkboxClick", elementId |-> elementId,
             before |-> appState.selectedElements]

SelectAllState_KeepsPrev(prev) == prev

\* the updater of selectAllElements
SelectAllState(prev) == [prev EXCEPT !.selectedElements = IdSet(prev.uiElements)]

selectAllElements ==
  /\ tree = "context"
  /\ CtxUpdate(SelectAllState(appState), TRUE, scale, hoveredElement, isImageLoaded)
  /\ ret' = [op |-> "selectAll", afterDeselectAll |-> (ret.op = "deselectAll")]

deselectAllElements ==
  /\ tree = "context"
  /\ CtxUpdate([appState EXCEPT !.selectedElements = {}], TRUE, scale, hoveredElement, isImageLoaded)
  /\ ret' = [op |-> "deselectAll"]

(***************************************************************************)
(* BoundingBoxCanvas.                                                      *)
(***************************************************************************)
ImageWidth(i) == CASE i = 1 -> 1600 [] i = 2 -> 400 [] OTHER -> 1080
ImageHeight(i) == CASE i = 1 -> 1200 [] i = 2 -> 300 [] OTHER -> 1920

\* the scale calculateCanvasSize sets
calculateCanvasSize(width, height) ==
  IF width > 800 \/ height > 600
    THEN FracMin(Frac(800, width), Frac(600, height))
    ELSE One

\* img.onload of the image-load effect
imageOnload ==
  /\ tree = "context"
  /\ imgPending
  /\ CtxUpdate(appState, FALSE,
               calculateCanvasSize(ImageWidth(appState.uploadedImage),
                                   ImageHeight(appState.uploadedImage)),
               hoveredElement, TRUE)
  /\ ret' = [op |-> "imageOnload"]

\* the image fails to decode: the effect registers no onerror handler
imageOnerror ==
  /\ tree = "context"
  /\ imgPending
  /\ imgPending' = FALSE
  /\ ret' = [op |-> "imageOnerror"]
  /\ redraws' = 0
  /\ UNCHANGED <<appState, scale, hoveredElement, isImageLoaded, drawn>>
  /\ CtxFrame

CanvasRendered == tree = "context" /\ appState.uploadedImage # 0

handleCanvasClick(x, y) ==
  /\ CanvasRendered
  /\ LET clickedElement == FindHit(appState.uiElements, appState.selectedElements, scale, x, y)
     IN  /\ CtxUpdate(IF clickedElement # 0 THEN ToggledState(appState, clickedElement)
                                            ELSE appState,
                      clickedElement # 0, scale, hoveredElement, isImageLoaded)
         /\ ret' = [op |-> "handleCanvasClick", hit |-> clickedElement]

handleCanvasMouseMove(x, y) ==
  /\ CanvasRendered
  /\ LET hoveredEl == FindHit(appState.uiElements, appState.selectedElements, scale, x, y)
     IN  /\ CtxUpdate(appState, FALSE, scale, hoveredEl, isImageLoaded)
         /\ ret' = [op |-> "handleCanvasMouseMove", hit |-> hoveredEl]

handleCanvasMouseLeave ==
  /\ CanvasRendered
  /\ CtxUpdate(appState, FALSE, scale, 0, isImageLoaded)
  /\ ret' = [op |-> "handleCanvasMouseLeave"]

\* Zoom In: setScale(prev => Math.min(prev + 0.1, 2))
zoomIn ==
  /\ CanvasRendered
  /\ CtxUpdate(appState, FALSE, FracMin(FracAdd(scale, Tenth), MaxZoom), hoveredElement,
               isImageLoaded)
  /\ ret' = [op |-> "zoomIn"]

\* Zoom Out: setScale(prev => Math.max(prev - 0.1, 0.3))
zoomOut ==
  /\ CanvasRendered
  /\ CtxUpdate(appState, FALSE,
               IF FracLeq(scale, FracAdd(MinZoom, Tenth)) THEN MinZoom ELSE FracSub(scale, Tenth),
               hoveredElement, isImageLoaded)
  /\ ret' = [op |-> "zoomOut"]

\* Reset View: calculateCanvasSize(imageRef.current); before the image has
\* loaded imageRef.current is null and the handler throws
resetView ==
  /\ CanvasRendered
  /\ CtxUpdate(appState, FALSE,
               IF isImageLoaded
                 THEN calculateCanvasSize(ImageWidth(appState.uploadedImage),
                                          ImageHeight(appState.uploadedImage))
                 ELSE scale,
               hoveredElement, isImageLoaded)
  /\ ret' = [op |-> "resetView"]

(***************************************************************************)
(* The specification.                                                      *)
(***************************************************************************)
Coords == 0..MaxCoord

InitApp ==
  /\ uploadedImage = 0
  /\ uiElements = <<>>
  /\ currentProjectId = 0
  /\ currentShortId = 0
  /\ showBounds = FALSE
  /\ isLoading = FALSE
  /\ upload = NoUpload
  /\ visibleBoxes = {}
  /\ saveReqs = <<>>
  /\ decodes = {}
  /\ overlayCanvas = BlankCanvas

\* The overlay as App mounts it: an image, a non-empty element list, every
\* element visible, and the Image of the first run of the draw effect loading.
InitOverlay ==
  /\ \E img \in ImageFiles, els \in DumpFiles \ {<<>>}, project_id \in ProjectIds \cup {0} :
       /\ uploadedImage = img
       /\ uiElements = els
       /\ currentProjectId = project_id
       /\ currentShortId = project_id
       /\ visibleBoxes = IdSet(els)
       /\ decodes = DrawEffect({}, els, IdSet(els))
  /\ showBounds = TRUE
  /\ isLoading = FALSE
  /\ upload = NoUpload
  /\ saveReqs = <<>>
  /\ overlayCanvas = BlankCanvas

\* the initial appState of AppProvider and the useState initial values of the canvas
InitCtx ==
  /\ appState = [uploadedImage |-> 0, imageMetadata |-> 0, uiElements |-> <<>>,
                 selectedElements |-> {}, isLoading |-> FALSE, error |-> "none"]
  /\ scale = One
  /\ hoveredElement = 0
  /\ isImageLoaded = FALSE
  /\ imgPending = FALSE
  /\ drawn = Blank
  /\ redraws = 0
  /\ imageUploads = <<>>
  /\ backend = [clock |-> 0, rows |-> {}]

\* The context tree starts with an image and an element list in the store,
\* every element selected, as an upload leaves them.
InitCtxLoaded ==
  /\ \E img \in 1..MaxCanvasImages, els \in ElementLists(MaxCanvasIds) :
       appState = [uploadedImage |-> img, imageMetadata |-> img, uiElements |-> els,
                   selectedElements |-> IdSet(els), isLoading |-> FALSE, error |-> "none"]
  /\ scale = One
  /\ hoveredElement = 0
  /\ isImageLoaded = FALSE
  /\ imgPending = TRUE
  /\ drawn = Blank
  /\ redraws = 0
  /\ imageUploads = <<>>
  /\ backend = [clock |-> 0, rows |-> {}]

Init ==
  /\ ret = NoRet
  /\ \/ tree = "app" /\ InitApp /\ InitCtx
     \/ tree = "overlay" /\ InitOverlay /\ InitCtx
     \/ tree = "context" /\ InitApp /\ InitCtxLoaded

NextApp ==
  \/ \E file \in ImageFiles : handleImageUploadStart(file)
  \/ \E outcome \in UploadOutcomes : handleImageUploadResponse(outcome)
  \/ \E file \in DumpFiles : handleJsonUploadStart(file)
  \/ \E outcome \in UploadOutcomes, project_id \in ProjectIds \cup {0} :
       handleJsonUploadResponse(outcome, project_id)
  \/ StartAnnotation
  \/ BackToUpload
  \/ \E id \in 1..MaxDumpIds : toggleBox(id)
  \/ selectAll
  \/ deselectAll
  \/ \E download \in DownloadOutcomes : saveImage(download)
  \/ \E download \in DownloadOutcomes : saveSelectedJSON(download)
  \/ saveAnnotationsToDatabase
  \/ \E i \in 1..MaxSavesInFlight, outcome \in SaveOutcomes : saveResponse(i, outcome)
  \/ \E boxes \in decodes : overlayImageOnload(boxes)

NextCtx ==
  \/ \E elementId \in 1..MaxCanvasIds : toggleElement(elementId)
  \/ \E elementId \in 1..MaxCanvasIds : checkboxClick(elementId)
  \/ selectAllElements
  \/ deselectAllElements
  \/ imageOnload
  \/ imageOnerror
  \/ \E x \in Coords, y \in Coords : handleCanvasClick(x, y)
  \/ \E x \in Coords, y \in Coords : handleCanvasMouseMove(x, y)
  \/ handleCanvasMouseLeave
  \/ zoomIn
  \/ zoomOut
  \/ resetView

Next == NextApp \/ NextCtx

Spec == Init /\ [][Next]_vars

\* App's uploads and the annotation view, with the project rows of the backend
InitProject ==
  /\ ret = NoRet
  /\ tree = "project"
  /\ InitApp
  /\ InitCtx

NextProject ==
  \/ \E file \in ImageFiles : handleImageUploadStart(file)
  \/ \E outcome \in UploadOutcomes : handleImageUploadResponse(outcome)
  \/ \E file \in DumpFiles : handleJsonUploadStart(file)
  \/ \E outcome \in UploadOutcomes, project_id \in ProjectIds \cup {0} :
       handleJsonUploadResponse(outcome, project_id)
  \/ StartAnnotation
  \/ BackToUpload

SpecProject == InitProject /\ [][NextProject]_vars

\* every request of App's uploads resolves or rejects in the end
SpecLive ==
  /\ Init /\ [][Next]_vars
  /\ WF_vars(\E outcome \in UploadOutcomes : handleImageUploadResponse(outcome))
  /\ WF_vars(\E outcome \in UploadOutcomes, project_id \in ProjectIds \cup {0} :
               handleJsonUploadResponse(outcome, project_id))

TypeOK ==
  /\ tree \in {"app", "overlay", "context", "utils", "backend", "project"}
  /\ uploadedImage \in 0..MaxImages
  /\ visibleBoxes \subseteq 1..MaxDumpIds
  /\ Len(saveReqs) <= MaxSavesInFlight
  /\ hoveredElement \in 0..MaxCanvasIds


(***************************************************************************)
(* Strings.  A JavaScript string is the sequence of its characters, each a *)
(* one-character string.                                                   *)
(***************************************************************************)
\* null or undefined where a string is expected, and where an object is
NullString == <<"">>
Null == [null |-> TRUE]


\* String.prototype.toLowerCase, per character
CharToLowerCase(c) ==
  LET UpperCase == <<"A", "B", "C", "D", "E", "F", "G", "H", "I", "J", "K", "L", "M", "N", "O", "P", "Q", "R", "S", "T", "U", "V", "W", "X", "Y", "Z">>
      LowerCase == <<"a", "b", "c", "d", "e", "f", "g", "h", "i", "j", "k", "l", "m", "n", "o", "p", "q", "r", "s", "t", "u", "v", "w", "x", "y", "z">>
  IN  IF \E i \in DOMAIN UpperCase : UpperCase[i] = c
        THEN LowerCase[CHOOSE i \in DOMAIN UpperCase : UpperCase[i] = c]
        ELSE c

toLowerCase(str) == [i \in 1..Len(str) |-> CharToLowerCase(str[i])]

\* str holds sub from position from on
HasAt(str, sub, from) ==
  /\ from + Len(sub) - 1 <= Len(str)
  /\ \A k \in 1..Len(sub) : str[from + k - 1] = sub[k]

\* String.prototype.includes, startsWith, endsWith
includes(str, sub) == \E from \in 1..(Len(str) + 1) : HasAt(str, sub, from)
startsWith(str, sub) == HasAt(str, sub, 1)
endsWith(str, sub) == Len(sub) <= Len(str) /\ HasAt(str, sub, Len(str) - Len(sub) + 1)

\* the character at a position, "" past either end
CharAt(str, i) == IF i \in 1..Len(str) THEN str[i] ELSE ""

Digits == <<"0", "1", "2", "3", "4", "5", "6", "7", "8", "9">>
IsDigit(c) == \E d \in DOMAIN Digits : Digits[d] = c
DigitValue(c) == (CHOOSE d \in DOMAIN Digits : Digits[d] = c) - 1

\* parseInt of a run of decimal digits
RECURSIVE parseInt(_)
parseInt(str) ==
  IF str = <<>> THEN 0
  ELSE 10 * parseInt(SubSeq(str, 1, Len(str) - 1)) + DigitValue(str[Len(str)])

(***************************************************************************)
(* FileUpload: parseBounds.  The regular expression                        *)
(*   /\[(\d+),(\d+)\]\[(\d+),(\d+)\]/                                      *)
(* has no ^ and no $: String.prototype.match finds its leftmost match      *)
(* anywhere in the string.  \d+ is followed by a character that is no      *)
(* digit, so each group is a maximal run of digits.                        *)
(***************************************************************************)
\* the last position of the run of digits that starts at from; from - 1 when
\* there is no digit at from
DigitRunEnd(str, from) ==
  LET ends == {from - 1} \cup {j \in from..Len(str) : \A k \in from..j : IsDigit(str[k])}
  IN  CHOOSE j \in ends : \A k \in ends : k <= j

\* the expression matches from position from on
MatchesAt(str, from) ==
  LET e1 == DigitRunEnd(str, from + 1)
      e2 == DigitRunEnd(str, e1 + 2)
      e3 == DigitRunEnd(str, e2 + 3)
      e4 == DigitRunEnd(str, e3 + 2)
  IN  /\ CharAt(str, from) = "["
      /\ e1 >= from + 1 /\ CharAt(str, e1 + 1) = ","
      /\ e2 >= e1 + 2 /\ CharAt(str, e2 + 1) = "]" /\ CharAt(str, e2 + 2) = "["
      /\ e3 >= e2 + 3 /\ CharAt(str, e3 + 1) = ","
      /\ e4 >= e3 + 2 /\ CharAt(str, e4 + 1) = "]"

\* the match that starts at position from: its four groups and the position
\* of its last character
MatchAt(str, from) ==
  LET e1 == DigitRunEnd(str, from + 1)
      e2 == DigitRunEnd(str, e1 + 2)
      e3 == DigitRunEnd(str, e2 + 3)
      e4 == DigitRunEnd(str, e3 + 2)
  IN  [last |-> e4 + 1,
       g1 |-> SubSeq(str, from + 1, e1), g2 |-> SubSeq(str, e1 + 2, e2),
       g3 |-> SubSeq(str, e2 + 3, e3), g4 |-> SubSeq(str, e3 + 2, e4)]

\* parseBounds: the rectangle, or null
parseBounds(boundsStr) ==
  LET starts == {i \in 1..Len(boundsStr) : MatchesAt(boundsStr, i)}
  IN  IF starts = {} THEN Null
      ELSE LET matches == MatchAt(boundsStr, CHOOSE i \in starts : \A j \in starts : i <= j)
           IN  [x1 |-> parseInt(matches.g1), y1 |-> parseInt(matches.g2),
                x2 |-> parseInt(matches.g3), y2 |-> parseInt(matches.g4)]

(***************************************************************************)
(* colorMapping: the classifier and the palette.                           *)
(***************************************************************************)
\* the categories in the order getElementType tests them
Categories == <<"Button", "EditText", "TextView", "ImageView", "ViewGroup", "FrameLayout">>

\* the keywords getElementType tests for each category
Keywords ==
  <<<<<<"b", "u", "t", "t", "o", "n">>,
      <<"c", "l", "i", "c", "k", "a", "b", "l", "e">>,
      <<"m", "e", "n", "u">>,
      <<"t", "a", "b">>,
      <<"c", "h", "i", "p">>>>,
    <<<<"e", "d", "i", "t", "t", "e", "x", "t">>,
      <<"e", "d", "i", "t">>,
      <<"i", "n", "p", "u", "t">>,
      <<"s", "e", "a", "r", "c", "h">>,
      <<"f", "i", "e", "l", "d">>>>,
    <<<<"t", "e", "x", "t", "v", "i", "e", "w">>,
      <<"t", "e", "x", "t">>,
      <<"l", "a", "b", "e", "l">>,
      <<"t", "i", "t", "l", "e">>>>,
    <<<<"i", "m", "a", "g", "e", "v", "i", "e", "w">>,
      <<"i", "m", "a", "g", "e">>,
      <<"i", "c", "o", "n">>,
      <<"a", "v", "a", "t", "a", "r">>,
      <<"p", "h", "o", "t", "o">>>>,
    <<<<"v", "i", "e", "w", "g", "r", "o", "u", "p">>,
      <<"g", "r", "o", "u", "p">>,
      <<"l", "i", "n", "e", "a", "r", "l", "a", "y", "o", "u", "t">>,
      <<"l", "i", "n", "e", "a", "r">>,
      <<"r", "e", "c", "y", "c", "l", "e", "r">>,
      <<"s", "c", "r", "o", "l", "l">>>>,
    <<<<"f", "r", "a", "m", "e", "l", "a", "y", "o", "u", "t">>,
      <<"f", "r", "a", "m", "e">>,
      <<"r", "e", "l", "a", "t", "i", "v", "e", "l", "a", "y", "o", "u", "t">>,
      <<"r", "e", "l", "a", "t", "i", "v", "e">>,
      <<"c", "o", "n", "s", "t", "r", "a", "i", "n", "t">>,
      <<"c", "o", "o", "r", "d", "i", "n", "a", "t", "o", "r">>,
      <<"d", "r", "a", "w", "e", "r">>>>>>

IncludesAny(str, words) == \E w \in DOMAIN words : includes(str, words[w])

\* the chain of if statements from the i-th one on
RECURSIVE FirstMatch(_, _)
FirstMatch(lowerClass, i) ==
  IF i > Len(Categories) THEN "Other"
  ELSE IF IncludesAny(lowerClass, Keywords[i]) THEN Categories[i]
  ELSE FirstMatch(lowerClass, i + 1)

getElementType_CaseSensitive(className) ==
  IF className = NullString \/ className = <<>> THEN "Other"
  ELSE FirstMatch(className, 1)

\* getElementType of colorMapping
getElementType(className) ==
  IF className = NullString \/ className = <<>> THEN "Other"
  ELSE FirstMatch(toLowerCase(className), 1)

COLOR_PALETTE ==
  ("BUTTON" :> "#FF6B6B") @@ ("INPUT" :> "#4ECDC4") @@ ("TEXT" :> "#45B7D1") @@
  ("IMAGE" :> "#96CEB4") @@ ("CONTAINER" :> "#FFEAA7") @@ ("LAYOUT" :> "#DDA0DD") @@
  ("OTHER" :> "#95A5A6")

\* the switch of getElementColor of colorMapping
TypeColor(type) ==
  CASE type = "Button" -> COLOR_PALETTE.BUTTON
    [] type = "EditText" -> COLOR_PALETTE.INPUT
    [] type = "TextView" -> COLOR_PALETTE.TEXT
    [] type = "ImageView" -> COLOR_PALETTE.IMAGE
    [] type = "ViewGroup" -> COLOR_PALETTE.CONTAINER
    [] type = "FrameLayout" -> COLOR_PALETTE.LAYOUT
    [] OTHER -> COLOR_PALETTE["OTHER"]

\* getElementColor of colorMapping
paletteElementColor(className) == TypeColor(getElementType(className))

(***************************************************************************)
(* canvasUtils: getElementColor, the one BoundingBoxCanvas imports.        *)
(***************************************************************************)
CanvasColors == <<"#FF6B6B", "#4ECDC4", "#45B7D1", "#96CEB4", "#FFEAA7", "#DDA0DD">>

\* the keywords it tests on the lower-cased class name, per colour
CanvasKeywords ==
  <<<<<<"b", "u", "t", "t", "o", "n">>,
      <<"c", "l", "i", "c", "k", "a", "b", "l", "e">>>>,
    <<<<"e", "d", "i", "t", "t", "e", "x", "t">>,
      <<"e", "d", "i", "t">>,
      <<"i", "n", "p", "u", "t">>>>,
    <<<<"t", "e", "x", "t", "v", "i", "e", "w">>,
      <<"t", "e", "x", "t">>,
      <<"l", "a", "b", "e", "l">>>>,
    <<<<"i", "m", "a", "g", "e", "v", "i", "e", "w">>,
      <<"i", "m", "a", "g", "e">>,
      <<"i", "c", "o", "n">>>>,
    <<<<"v", "i", "e", "w", "g", "r", "o", "u", "p">>,
      <<"g", "r", "o", "u", "p">>,
      <<"l", "i", "n", "e", "a", "r">>>>,
    <<<<"f", "r", "a", "m", "e", "l", "a", "y", "o", "u", "t">>,
      <<"f", "r", "a", "m", "e">>,
      <<"r", "e", "l", "a", "t", "i", "v", "e">>>>>>

RECURSIVE CanvasFirstMatch(_, _, _)
CanvasFirstMatch(className, lowerClass, i) ==
  IF i > Len(CanvasColors) THEN "#95A5A6"
  ELSE IF \/ IncludesAny(lowerClass, CanvasKeywords[i])
          \/ (i = 1 /\ includes(className, <<"m", "e", "n", "u">>))
         THEN CanvasColors[i]
  ELSE CanvasFirstMatch(className, lowerClass, i + 1)

\* getElementColor of canvasUtils: 'menu' is looked for in className itself
getElementColor(className) ==
  IF className = NullString \/ className = <<>> THEN "#95A5A6"
  ELSE CanvasFirstMatch(className, toLowerCase(className), 1)



(***************************************************************************)
(* JavaScript values that are compared with ===: a string, a boolean, or   *)
(* undefined.                                                              *)
(***************************************************************************)
JsString(v) == [t |-> "string", v |-> v]
JsBoolean(v) == [t |-> "boolean", v |-> v]
Undefined == [t |-> "undefined", v |-> "undefined"]

\* a === b
StrictEquals(a, b) == a.t = b.t /\ a.v = b.v

\* String.prototype.trim
RECURSIVE trim(_)
trim(str) ==
  IF str = <<>> THEN str
  ELSE IF Head(str) = " " THEN trim(Tail(str))
  ELSE IF str[Len(str)] = " " THEN trim(SubSeq(str, 1, Len(str) - 1))
  ELSE str

(***************************************************************************)
(* FileUpload: an entry of a dump becomes an element.  An entry is         *)
(*   [key, bounds, class, text, clickable]                                 *)
(* with bounds, class and text strings (<<>> also for a missing field) and *)
(* clickable a JavaScript value.                                           *)
(***************************************************************************)
\* the object literal of processJsonData
IngestElement(elementId, elementData, bounds) ==
  [id |-> elementId,
   bounds |-> bounds,
   class |-> elementData.class,
   text |-> elementData.text,
   clickable |-> JsBoolean(StrictEquals(elementData.clickable, JsString("true")))]

\* getElementPriority
getElementPriority(type, element) ==
  LET base == CASE type = "Button" -> 5
                [] type = "EditText" -> 4
                [] type = "TextView" -> (IF element.text # <<>> THEN 3 ELSE 2)
                [] type = "ImageView" -> 2
                [] OTHER -> 1
      clickable == IF StrictEquals(element.clickable, JsString("true")) THEN 2 ELSE 0
      withText == IF element.text # <<>> /\ trim(element.text) # <<>> THEN 1 ELSE 0
      priority == base + clickable + withText
  IN  IF priority < 7 THEN priority ELSE 7

\* classifyElement: the fields the claims are about
classifyElement(element) ==
  LET type == getElementType(element.class)
  IN  [id |-> element.id, type |-> type, color |-> paletteElementColor(element.class),
       priority |-> getElementPriority(type, element)]

\* The for loop of processJsonData from the given entries on.  Arrays have no
\* append method: elements.append(element) throws a TypeError.
RECURSIVE IngestLoop(_, _)
IngestLoop(entries, elements) ==
  IF entries = <<>> THEN [threw |-> FALSE, elements |-> elements]
  ELSE LET elementData == Head(entries)
           bounds == parseBounds(elementData.bounds)
       IN  IF elementData.bounds # <<>> /\ bounds # Null
             THEN [threw |-> TRUE, elements |-> elements]
             ELSE IngestLoop(Tail(entries), elements)

\* processJsonData: the store and the upload status it ends with.  data is
\* [valid, entries]: whether JSON.parse accepts the text, and the entries of
\* the object it returns, in the order of Object.entries.
processJsonData(store, data) ==
  LET started == [store EXCEPT !.isLoading = TRUE, !.error = "none"]
      loop == IngestLoop(data.entries, <<>>)
  IN  IF data.valid /\ ~loop.threw
        THEN [status |-> "success",
              store |-> [started EXCEPT !.uiElements = loop.elements,
                                        !.selectedElements = IdSet(loop.elements),
                                        !.isLoading = FALSE]]
        ELSE [status |-> "error",
              store |-> [started EXCEPT !.isLoading = FALSE, !.error = "JSON processing failed"]]



(***************************************************************************)
(* Image files.  A file the user picks is one of 1..MaxFiles; its type and *)
(* size are those of FileType and FileSize.                                *)
(***************************************************************************)
MaxFiles == 5          \* files 1..MaxFiles can be picked or dropped
MaxDropped == 2        \* files dropped together

FileType(file) ==
  CASE file = 1 -> <<"i", "m", "a", "g", "e", "/", "p", "n", "g">>
    [] file = 2 -> <<"i", "m", "a", "g", "e", "/", "j", "p", "e", "g">>
    [] file = 3 -> <<"t", "e", "x", "t", "/", "p", "l", "a", "i", "n">>
    [] file = 4 -> <<"a", "p", "p", "l", "i", "c", "a", "t", "i", "o", "n", "/", "p", "d", "f">>
    [] OTHER -> <<"i", "m", "a", "g", "e", "/", "p", "n", "g">>

FileSize(file) ==
  CASE file = 1 -> 1024
    [] file = 2 -> 10 * 1024 * 1024 + 1
    [] file = 3 -> 100
    [] file = 4 -> 20 * 1024 * 1024
    [] OTHER -> 10 * 1024 * 1024


\* ApiClient.uploadImage up to the request: whether it is sent, and the error returned
ApiClientUploadImage(file) ==
  IF ~startsWith(FileType(file), <<"i", "m", "a", "g", "e", "/">>)
    THEN [sent |-> FALSE, error |-> "Please provide a valid image file"]
  ELSE IF FileSize(file) > 10 * 1024 * 1024
    THEN [sent |-> FALSE, error |-> "Image file is too large"]
  ELSE [sent |-> TRUE, error |-> "none"]

\* handleDrop: files.find(file => file.type.startsWith('image/')), 0 for undefined
RECURSIVE FindImageFile(_)
FindImageFile(files) ==
  IF files = <<>> THEN 0
  ELSE IF startsWith(FileType(Head(files)), <<"i", "m", "a", "g", "e", "/">>) THEN Head(files)
  ELSE FindImageFile(Tail(files))

(***************************************************************************)
(* The inputs of the upload components and of the utilities.               *)
(***************************************************************************)
MaxEntries == 2        \* entries of a dump


\* the base string with one character deleted, replaced or inserted
BoundsStrings ==
  LET BoundsBase == <<"[", "1", "0", ",", "2", "]", "[", "3", ",", "4", "0", "]">>
      BoundsChars == <<"[", "]", ",", "7", "x", " ", "-", ".">>
      n == Len(BoundsBase)
  IN  {BoundsBase, <<>>}
        \cup {SubSeq(BoundsBase, 1, i - 1) \o SubSeq(BoundsBase, i + 1, n) : i \in 1..n}
        \cup {SubSeq(BoundsBase, 1, i - 1) \o <<BoundsChars[c]>> \o SubSeq(BoundsBase, i + 1, n) :
                i \in 1..n, c \in DOMAIN BoundsChars}
        \cup {SubSeq(BoundsBase, 1, i - 1) \o <<BoundsChars[c]>> \o SubSeq(BoundsBase, i, n) :
                i \in 1..(n + 1), c \in DOMAIN BoundsChars}

LabelWords ==
  {<<"b", "u", "t", "t", "o", "n">>,
   <<"c", "l", "i", "c", "k", "a", "b", "l", "e">>,
   <<"m", "e", "n", "u">>,
   <<"t", "a", "b">>,
   <<"c", "h", "i", "p">>,
   <<"e", "d", "i", "t", "t", "e", "x", "t">>,
   <<"e", "d", "i", "t">>,
   <<"i", "n", "p", "u", "t">>,
   <<"s", "e", "a", "r", "c", "h">>,
   <<"f", "i", "e", "l", "d">>,
   <<"t", "e", "x", "t", "v", "i", "e", "w">>,
   <<"t", "e", "x", "t">>,
   <<"l", "a", "b", "e", "l">>,
   <<"t", "i", "t", "l", "e">>,
   <<"i", "m", "a", "g", "e", "v", "i", "e", "w">>,
   <<"i", "m", "a", "g", "e">>,
   <<"i", "c", "o", "n">>,
   <<"a", "v", "a", "t", "a", "r">>,
   <<"p", "h", "o", "t", "o">>,
   <<"v", "i", "e", "w", "g", "r", "o", "u", "p">>,
   <<"g", "r", "o", "u", "p">>,
   <<"l", "i", "n", "e", "a", "r", "l", "a", "y", "o", "u", "t">>,
   <<"l", "i", "n", "e", "a", "r">>,
   <<"r", "e", "c", "y", "c", "l", "e", "r">>,
   <<"s", "c", "r", "o", "l", "l">>,
   <<"f", "r", "a", "m", "e", "l", "a", "y", "o", "u", "t">>,
   <<"f", "r", "a", "m", "e">>,
   <<"r", "e", "l", "a", "t", "i", "v", "e", "l", "a", "y", "o", "u", "t">>,
   <<"r", "e", "l", "a", "t", "i", "v", "e">>,
   <<"c", "o", "n", "s", "t", "r", "a", "i", "n", "t">>,
   <<"c", "o", "o", "r", "d", "i", "n", "a", "t", "o", "r">>,
   <<"d", "r", "a", "w", "e", "r">>,
   <<"B", "u", "t", "t", "o", "n">>,
   <<"M", "e", "n", "u">>,
   <<"T", "a", "b">>,
   <<"E", "d", "i", "t", "T", "e", "x", "t">>,
   <<"T", "e", "x", "t", "V", "i", "e", "w">>,
   <<"I", "m", "a", "g", "e">>,
   <<"I", "m", "a", "g", "e", "V", "i", "e", "w">>,
   <<"V", "i", "e", "w", "G", "r", "o", "u", "p">>,
   <<"F", "r", "a", "m", "e", "L", "a", "y", "o", "u", "t">>,
   <<"T", "I", "T", "L", "E">>,
   <<"a", "n", "d", "r", "o", "i", "d", ".", "w", "i", "d", "g", "e", "t", ".">>,
   <<"V", "i", "e", "w">>,
   <<"S", "w", "i", "t", "c", "h">>}


\* class labels: null, or a prefix followed by nothing or by a word
ClassLabels ==
  LET LabelPrefixes == {<<>>, <<"a", "n", "d", "r", "o", "i", "d", ".", "w", "i", "d", "g", "e", "t", ".">>, <<"I", "m", "a", "g", "e">>, <<"m", "y">>}
  IN  {NullString} \cup {p \o w : p \in LabelPrefixes, w \in LabelWords \cup {<<>>}}


DumpEntry(key, bounds, class, text, clickable) ==
  [key |-> key, bounds |-> bounds, class |-> class, text |-> text, clickable |-> clickable]

\* entries for classifyElement: every class, text and clickable flag
ClassifiedEntries ==
  LET EntryClasses == {<<"a", "n", "d", "r", "o", "i", "d", ".", "w", "i", "d", "g", "e", "t", ".", "B", "u", "t", "t", "o", "n">>, <<"E", "d", "i", "t", "T", "e", "x", "t">>, <<"T", "e", "x", "t", "V", "i", "e", "w">>, <<"I", "m", "a", "g", "e", "V", "i", "e", "w">>, <<"V", "i", "e", "w">>, <<>>}
      EntryTexts == {<<>>, <<"o", "k">>, <<" ">>}
      EntryClickables == {JsString("true"), JsString("false"), Undefined}
  IN
  {DumpEntry(1, <<"[", "0", ",", "0", "]", "[", "2", ",", "2", "]">>, class, text, clickable) :
     class \in EntryClasses, text \in EntryTexts, clickable \in EntryClickables}

\* the texts of the dump files: not JSON, or an object with up to MaxEntries
\* entries under different keys; the first key comes with every kind of
\* bounds string, the others with a well-formed one
DumpTexts ==
  LET EntryBounds == {<<"[", "0", ",", "0", "]", "[", "2", ",", "2", "]">>, <<"[", "1", ",", "1", "]">>, <<"x", "[", "1", ",", "1", "]", "[", "3", ",", "3", "]">>, <<>>}
      button == <<"a", "n", "d", "r", "o", "i", "d", ".", "w", "i", "d", "g", "e", "t", ".", "B", "u", "t", "t", "o", "n">>
      pool == {DumpEntry(1, bounds, button, <<>>, JsString("true")) : bounds \in EntryBounds}
                \cup {DumpEntry(key, <<"[", "1", ",", "1", "]", "[", "3", ",", "3", "]">>, button, <<>>, JsString("true")) :
                        key \in 2..MaxEntries}
      all == UNION {[1..m -> pool] : m \in 0..MaxEntries}
  IN  {[valid |-> FALSE, entries |-> <<>>]}
        \cup {[valid |-> TRUE, entries |-> es] :
                es \in {e \in all : \A i, j \in DOMAIN e : i < j => e[i].key < e[j].key}}

DumpNames == {<<"d", "u", "m", "p", ".", "j", "s", "o", "n">>, <<"d", "u", "m", "p", ".", "t", "x", "t">>}



(***************************************************************************)
(* The utilities called on their own: the call and what it returned.  They *)
(* keep no state, so a behaviour makes one call.                           *)
(***************************************************************************)
Returned(r) ==
  /\ tree = "utils"
  /\ ret = NoRet
  /\ ret' = r
  /\ UNCHANGED <<tree>>
  /\ UNCHANGED appVars
  /\ UNCHANGED ctxVars

callParseBounds(boundsStr) ==
  Returned([op |-> "parseBounds", boundsStr |-> boundsStr, result |-> parseBounds(boundsStr)])

\* the classifier, the palette colour and the colour the canvas draws with
callGetElementColor(className) ==
  Returned([op |-> "getElementColor", className |-> className,
            type |-> getElementType(className),
            paletteColor |-> paletteElementColor(className),
            canvasColor |-> getElementColor(className)])

\* an entry is ingested as processJsonData builds its element, then classified
callClassifyElement(elementData) ==
  Returned([op |-> "classifyElement", elementData |-> elementData,
            classified |-> classifyElement(IngestElement(elementData.key, elementData,
                                                         parseBounds(elementData.bounds)))])

callApiClientUploadImage(file) ==
  LET r == ApiClientUploadImage(file)
  IN  Returned([op |-> "ApiClient.uploadImage", file |-> file, sent |-> r.sent, error |-> r.error])

(***************************************************************************)
(* apiClient: retryRequest.  outcomes[k] is what the k-th call of          *)
(* requestFn does: it resolves to a result with success true ("success")   *)
(* or false ("failure"), or it rejects ("throws").  The log holds, in      *)
(* order, the calls of requestFn and the waits; every call is awaited      *)
(* before the loop goes on.                                                *)
(***************************************************************************)
\* the loop from iteration i on (i counts from 0 as in the code)
RECURSIVE RetryLoop(_, _, _, _)
RetryLoop(outcomes, maxRetries, i, log) ==
  IF ~(i < maxRetries) THEN [log |-> log, kind |-> "undefined", attempt |-> 0]
  ELSE LET called == Append(log, "call")
       IN  IF outcomes[i + 1] = "success"
             THEN [log |-> called, kind |-> "returned", attempt |-> i + 1]
           ELSE IF outcomes[i + 1] = "failure" /\ i = maxRetries - 1
             THEN [log |-> called, kind |-> "returned", attempt |-> i + 1]
           ELSE IF outcomes[i + 1] = "throws" /\ i = maxRetries - 1
             THEN [log |-> called, kind |-> "thrown", attempt |-> i + 1]
           ELSE RetryLoop(outcomes, maxRetries, i + 1, Append(called, "wait"))

retryRequest_GivesUp(outcomes, maxRetries) ==
  RetryLoop(outcomes, IF maxRetries > 1 THEN 1 ELSE maxRetries, 0, <<>>)

retryRequest(outcomes, maxRetries) == RetryLoop(outcomes, maxRetries, 0, <<>>)

callRetryRequest(outcomes, maxRetries) ==
  LET r == retryRequest(outcomes, maxRetries)
  IN  Returned([op |-> "retryRequest", outcomes |-> outcomes, maxRetries |-> maxRetries,
                log |-> r.log, kind |-> r.kind, attempt |-> r.attempt])

(***************************************************************************)
(* FileUpload and ImageUpload over the context store.                      *)
(***************************************************************************)
\* the store is replaced; the canvas, when it is Ready, redraws
StoreUpdate(newState, newUploads) ==
  /\ tree = "context"
  /\ appState' = newState
  /\ imageUploads' = newUploads
  /\ imgPending' = (imgPending \/ newState.uploadedImage # appState.uploadedImage)
  /\ drawn' = Redraw(isImageLoaded, newState.uiElements, newState.selectedElements,
                     scale, hoveredElement)
  /\ redraws' = IF isImageLoaded /\ newState.uiElements # appState.uiElements THEN 1 ELSE 0
  /\ UNCHANGED <<tree, uploadedImage, uiElements, currentProjectId, currentShortId,
                 showBounds, isLoading, upload, visibleBoxes, saveReqs, decodes,
                 overlayCanvas, scale, hoveredElement, isImageLoaded, backend>>

\* handleFileUpload: the check of the file name, file.text() and processJsonData
handleFileUpload(name, text) ==
  IF ~endsWith(name, <<".", "j", "s", "o", "n">>) /\ ~endsWith(name, <<".", "x", "m", "l">>)
    THEN /\ StoreUpdate([appState EXCEPT !.error = "Please upload a JSON or XML file"], imageUploads)
         /\ ret' = [op |-> "handleFileUpload", text |-> text, processed |-> FALSE,
                    status |-> "error"]
    ELSE LET r == processJsonData(appState, text)
         IN  /\ StoreUpdate(r.store, imageUploads)
             /\ ret' = [op |-> "handleFileUpload", text |-> text, processed |-> TRUE,
                        status |-> r.status]

\* uploadImage of ImageUpload up to the await of fetch.  Nothing keeps a
\* second call from starting while a request waits for its answer: the drop
\* zone takes a drop in every uploadStatus, and the 3 s timer of an earlier
\* upload sets uploadStatus back to 'idle', which shows the file button again.
\* answeredLater: a request sent after this one has been answered already.
ImageUploadStart(op, file) ==
  /\ Len(imageUploads) < MaxUploadsInFlight
  /\ StoreUpdate([appState EXCEPT !.isLoading = TRUE, !.error = "none"],
                 Append(imageUploads, [file |-> file, answeredLater |-> FALSE]))
  /\ ret' = [op |-> op, file |-> file, sent |-> TRUE, error |-> "none"]

\* nothing is uploaded: the handler ends, with uploadStatus 'error' or silently
ImageUploadNone(op, file, error) ==
  /\ StoreUpdate(appState, imageUploads)
  /\ ret' = [op |-> op, file |-> file, sent |-> FALSE, error |-> error]

handleFileSelect(file) ==
  IF startsWith(FileType(file), <<"i", "m", "a", "g", "e", "/">>)
    THEN ImageUploadStart("handleFileSelect", file)
    ELSE ImageUploadNone("handleFileSelect", file, "none")

handleDrop(files) ==
  LET imageFile == FindImageFile(files)
  IN  IF imageFile # 0
        THEN ImageUploadStart("handleDrop", imageFile)
        ELSE ImageUploadNone("handleDrop", Head(files), "uploadStatus error")

UploadedState_LastSentWins(prev, outcome, request) ==
  IF outcome = "success"
    THEN IF request.answeredLater
           THEN [prev EXCEPT !.isLoading = FALSE]
           ELSE [prev EXCEPT !.uploadedImage = request.file, !.imageMetadata = request.file,
                             !.isLoading = FALSE]
    ELSE [prev EXCEPT !.isLoading = FALSE, !.error = "Image upload failed"]

\* the store after the answer of a request: the success branch of uploadImage
\* or its catch
UploadedState(prev, outcome, request) ==
  IF outcome = "success"
    THEN [prev EXCEPT !.uploadedImage = request.file, !.imageMetadata = request.file,
                      !.isLoading = FALSE]
    ELSE [prev EXCEPT !.isLoading = FALSE, !.error = "Image upload failed"]

\* the requests left after the i-th one has been answered
AnsweredUploads(uploads, i) ==
  [j \in 1..(Len(uploads) - 1) |->
     IF j < i THEN [uploads[j] EXCEPT !.answeredLater = TRUE] ELSE uploads[j + 1]]

\* uploadImage of ImageUpload after the answer of the i-th request
imageUploadResponse(i, outcome) ==
  /\ i \in DOMAIN imageUploads
  /\ StoreUpdate(UploadedState(appState, outcome, imageUploads[i]),
                 AnsweredUploads(imageUploads, i))
  /\ ret' = [op |-> "uploadImage", outcome |-> outcome, file |-> imageUploads[i].file,
             answeredLater |-> imageUploads[i].answeredLater]

(***************************************************************************)
(* Backend: project ids, short ids and the table original_inputs.          *)
(* SHA-256 is taken as collision-free: a digest is the record of what was  *)
(* hashed.  str(timestamp) and the f-strings join their parts with         *)
(* separators that occur in none of them, so the joined string is the      *)
(* record of its parts.                                                    *)
(***************************************************************************)
\* json.dumps(label_map_json, sort_keys=True, separators=(',', ':')): the
\* keys in sorted order, whatever their order in the upload
CanonicalJson(label_map_json) == IdSet(label_map_json)

\* now: the reading of datetime.utcnow().timestamp() at the call
generate_unique_project_id(image_base64, label_map_json, include_timestamp, now) ==
  LET salted == IF include_timestamp THEN [image |-> image_base64, nonce |-> now]
                                     ELSE [image |-> image_base64, nonce |-> -1]
      image_hash == [sha256 |-> salted]
      label_hash == [sha256 |-> CanonicalJson(label_map_json)]
  IN  [sha256 |-> [image_hash |-> image_hash, label_hash |-> label_hash]]

\* the hex digits of a digest as a number: different digests, different numbers
HexOf(id) ==
  LET image == id.sha256.image_hash.sha256
      keys == id.sha256.label_hash.sha256
      RECURSIVE KeysCode(_)
      KeysCode(k) == IF k = 0 THEN 0 ELSE 2 * KeysCode(k - 1) + (IF k \in keys THEN 1 ELSE 0)
  IN  ((image.nonce + 1) * MaxContents + (image.image - 1)) * (2 ^ MaxDumpIds)
        + KeysCode(MaxDumpIds)

\* shortuuid.uuid(name=short_seed): a string over the alphabet of shortuuid,
\* which has digits, capitals and small letters; different seeds, different
\* strings.  Here: nine characters over "2", "A", "a", the seed in base 3.
ShortUuid(seed) ==
  LET alphabet == <<"2", "A", "a">>
  IN  [k \in 1..9 |-> alphabet[((seed \div (3 ^ (9 - k))) % 3) + 1]]

\* generate_short_id: f"DZ{shortuuid.uuid(name=full_hash_id[:16])[:8].upper()}";
\* full_hash_id[:16] keeps the leading hex digits; here the last binary digit
\* is cut off
generate_short_id(full_hash_id) ==
  LET short_seed == HexOf(full_hash_id) \div 2
      token == SubSeq(ShortUuid(short_seed), 1, 8)
      upper(c) == IF c = "a" THEN "A" ELSE c
  IN  <<"D", "Z">> \o [k \in 1..8 |-> upper(token[k])]

InsertOutcome_NoUnique(rows, row) ==
  IF \E r \in rows : r.id = row.id THEN "id taken" ELSE "inserted"

\* INSERT INTO original_inputs: id is the PRIMARY KEY, short_id is UNIQUE
InsertOutcome(rows, row) ==
  IF \E r \in rows : r.id = row.id THEN "id taken"
  ELSE IF \E r \in rows : r.short_id = row.short_id THEN "short_id taken"
  ELSE "inserted"

\* POST /api/upload-json: the ids are generated and the row is inserted; the
\* clock reads now, which is not before its last reading
uploadJson(image, label_map_json, now) ==
  /\ tree = "backend"
  /\ now >= backend.clock
  /\ Cardinality(backend.rows) < MaxRows
  /\ LET id == generate_unique_project_id(image, label_map_json, TRUE, now)
         row == [id |-> id, short_id |-> generate_short_id(id)]
         outcome == InsertOutcome(backend.rows, row)
     IN  /\ backend' = [clock |-> now,
                        rows |-> IF outcome = "inserted" THEN backend.rows \cup {row}
                                                         ELSE backend.rows]
         /\ ret' = [op |-> "uploadJson", id |-> id, short_id |-> row.short_id,
                    outcome |-> outcome]
  /\ UNCHANGED <<tree, appState, scale, hoveredElement, isImageLoaded, imgPending, drawn,
                 redraws, imageUploads>>
  /\ UNCHANGED appVars

(***************************************************************************)
(* The upload components and the utilities, from the initial state of the  *)
(* program.                                                                *)
(***************************************************************************)
InitUpload ==
  /\ ret = NoRet
  /\ tree \in {"app", "context", "utils", "backend"}
  /\ InitApp
  /\ InitCtx

NextUpload ==
  \/ \E boundsStr \in BoundsStrings : callParseBounds(boundsStr)
  \/ \E className \in ClassLabels : callGetElementColor(className)
  \/ \E elementData \in ClassifiedEntries : callClassifyElement(elementData)
  \/ \E file \in (1..MaxFiles) : callApiClientUploadImage(file)
  \/ \E maxRetries \in 0..MaxRetries :
       \E outcomes \in [1..maxRetries -> {"success", "failure", "throws"}] :
         callRetryRequest(outcomes, maxRetries)
  \/ \E name \in DumpNames, text \in DumpTexts : handleFileUpload(name, text)
  \/ \E file \in (1..MaxFiles) : handleFileSelect(file)
  \/ \E files \in UNION {[1..m -> (1..MaxFiles)] : m \in 1..MaxDropped} : handleDrop(files)
  \/ \E i \in 1..MaxUploadsInFlight, outcome \in UploadOutcomes : imageUploadResponse(i, outcome)
  \/ \E file \in (1..MaxFiles) : handleImageUploadStart(file)
  \/ \E outcome \in UploadOutcomes : handleImageUploadResponse(outcome)
  \/ \E image \in 1..MaxContents, label_map_json \in DumpFiles, now \in 0..MaxClock :
       uploadJson(image, label_map_json, now)

SpecUpload == InitUpload /\ [][NextUpload]_vars


(***************************************************************************)
(* Properties.                                                             *)
(***************************************************************************)
SaveOps == {"saveImage", "saveSelectedJSON", "saveAnnotationsToDatabase"}
PointerOps == {"handleCanvasClick", "handleCanvasMouseMove"}

\* the last step started a save action: its record
SaveStarted == ret'.op \in SaveOps /\ Len(saveReqs') = Len(saveReqs)
SaveSent == Len(saveReqs') > Len(saveReqs)

\* data holds exactly the elements of the list whose id is in the set, in the
\* order of the list, each once, and counts them
HoldsVisible(data, elements, visible) ==
  LET a == data.annotations
  IN  /\ {a[i].id : i \in DOMAIN a} = {elements[k].id : k \in {l \in DOMAIN elements : elements[l].id \in visible}}
      /\ \A i, j \in DOMAIN a : i < j =>
           \E k, l \in DOMAIN elements : k < l /\ elements[k].id = a[i].id /\ elements[l].id = a[j].id
      /\ \A i \in DOMAIN a : \E k \in DOMAIN elements :
           /\ elements[k].id = a[i].id
           /\ a[i].bounding_box.x1 = elements[k].bounds.x1
           /\ a[i].bounding_box.y1 = elements[k].bounds.y1
           /\ a[i].bounding_box.x2 = elements[k].bounds.x2
           /\ a[i].bounding_box.y2 = elements[k].bounds.y2
      /\ data.total_elements = Len(a)
      /\ (visible = {} => a = <<>> /\ data.total_elements = 0)

\* C1: the file Save JSON downloads and the body the database save sends hold
\* exactly the elements whose ids are in the visibility set when the action
\* is triggered, in element-array order and without duplicates, and
\* total_elements is their number (0 for an empty visibility set).
C1_PayloadIsVisibleSnapshot ==
  [][/\ SaveSent =>
          LET rec == saveReqs'[Len(saveReqs')]
          IN  /\ Len(rec.sent) = 1
              /\ HoldsVisible(rec.sent[1].annotations, uiElements, visibleBoxes)
              /\ rec.op = "saveSelectedJSON" =>
                   Len(rec.file) = 1 /\ HoldsVisible(rec.file[1], uiElements, visibleBoxes)
     /\ (SaveStarted /\ ret'.op = "saveSelectedJSON" /\ ret'.download = "ok") =>
          Len(ret'.file) = 1 /\ HoldsVisible(ret'.file[1], uiElements, visibleBoxes)
    ]_vars

\* a database save in flight whose payload holds one of the two elements of the list
C1_Witness ==
  /\ Mounted
  /\ Len(uiElements) = 2
  /\ Cardinality(visibleBoxes) = 1
  /\ \E i \in DOMAIN saveReqs :
       /\ saveReqs[i].sent[1].annotations.total_elements = 1
       /\ saveReqs[i].sent[1].annotations.annotations[1].id \in visibleBoxes

\* C2: whenever an element list becomes the element list of the overlay (the
\* overlay is opened, or a JSON upload replaces the elements while it is
\* open), the visibility set is the set of all ids of that list.
C2_VisibleIsAllIdsOfNewList ==
  [][(OverlayRendered(showBounds', uploadedImage', uiElements')
        /\ (~Mounted \/ uiElements' # uiElements))
       => visibleBoxes' = IdSet(uiElements')]_vars

\* C3: deselect-all followed by select-all yields the set of all ids of the
\* current element list, in the overlay and in the context store.
C3_DeselectThenSelectIsAll ==
  (ret.op = "selectAll" /\ ret.afterDeselectAll) =>
     /\ tree = "app" => visibleBoxes = IdSet(uiElements)
     /\ tree = "context" => appState.selectedElements = IdSet(appState.uiElements)

\* the round trip in the overlay over a list of two elements
C3_Witness ==
  /\ tree = "app"
  /\ ret.op = "selectAll" /\ ret.afterDeselectAll
  /\ Cardinality(visibleBoxes) = 2

\* C4: without a project id a save action sends no request and reports no
\* error; saveAnnotationsToDatabase returns false and onSaveSuccess is not
\* called.
C4_NoProjectNoRequest ==
  /\ \A i \in DOMAIN saveReqs : saveReqs[i].projectId # 0
  /\ (ret.op \in SaveOps /\ ret.projectId = 0) =>
       /\ ret.sent = <<>>
       /\ ret.alert \in {"none", "local"}
       /\ ~ret.onSaveSuccess
       /\ ret.dbCalled => ret.result = "false"
       /\ ret.op = "saveAnnotationsToDatabase" => ret.dbCalled

C4_Witness ==
  /\ ret.op = "saveAnnotationsToDatabase"
  /\ ret.projectId = 0
  /\ ret.result = "false"

\* C5: a save action with a project id sends exactly one request; when the
\* request fails (fetch rejects, status not OK, success=false) a failure
\* message is shown, the action returns false, onSaveSuccess is not called
\* and no other request is sent.
C5_OneRequestFailureReported ==
  /\ \A i \in DOMAIN saveReqs :
       saveReqs[i].dbCalled /\ Len(saveReqs[i].sent) = 1 /\ saveReqs[i].result = "pending"
  /\ (ret.op \in SaveOps /\ ret.dbCalled /\ ret.projectId # 0) =>
       /\ Len(ret.sent) = 1
       /\ ret.outcome \in SaveOutcomes
       /\ ret.outcome \in {"reject", "notOk", "fail"} =>
            ret.alert = "failure" /\ ret.result = "false" /\ ~ret.onSaveSuccess

C5_Witness ==
  /\ ret.op \in SaveOps
  /\ ret.projectId # 0
  /\ ret.outcome = "fail"
  /\ ret.alert = "failure"

\* the last step was a step of a failing operation or of a save action
FailingOrSaveStep ==
  \/ ret'.op \in {"handleImageUpload", "handleJsonUpload"} /\ ret'.outcome \notin {"sent", "success"}
  \/ ret'.op = "imageOnerror"
  \/ ret'.op \in SaveOps
  \/ Len(saveReqs') # Len(saveReqs)

C7_ExportAndPersistenceIndependent ==
  /\ (ret.op \in {"saveImage", "saveSelectedJSON"} /\ ret.projectId # 0) =>
       ret.dbCalled /\ Len(ret.sent) = 1
  /\ (ret.op \in {"saveImage", "saveSelectedJSON"} /\ ret.dbCalled) => ret.download = "ok"
  /\ \A i \in DOMAIN saveReqs :
       saveReqs[i].op \in {"saveImage", "saveSelectedJSON"} => saveReqs[i].download = "ok"


\* the positions in the list of the elements that are in the set and whose
\* scaled rectangle contains the point, edges included
Candidates(elements, selected, s, x, y) ==
  {i \in DOMAIN elements :
     /\ elements[i].id \in selected
     /\ LET b == scaleCoordinates(elements[i].bounds, s)
        IN  x \in b.x1..b.x2 /\ y \in b.y1..b.y2}

HitIsFirstVisible(elements, selected, s, x, y, hit) ==
  LET cand == Candidates(elements, selected, s, x, y)
  IN  /\ cand = {} => hit = 0
      /\ cand # {} => hit = elements[CHOOSE i \in cand : \A j \in cand : i <= j].id
      /\ hit # 0 => hit \in selected
      /\ \A i \in DOMAIN elements :
           LET b == scaleCoordinates(elements[i].bounds, s)
           IN  (x = b.x1 - 1 \/ x = b.x2 + 1 \/ y = b.y1 - 1 \/ y = b.y2 + 1)
                 => hit # elements[i].id

HitIsTopmost(elements, selected, s, x, y, hit) ==
  LET cand == Candidates(elements, selected, s, x, y)
  IN  /\ cand = {} => hit = 0
      /\ cand # {} => hit = elements[CHOOSE i \in cand : \A j \in cand : j <= i].id

\* C8: for every pointer position the hit test of click and hover returns the
\* first element in element-array order that is in the visibility set and
\* whose scaled rectangle contains the point (edges included, one pixel
\* outside an edge excluded), nothing when there is none, and never an
\* element outside the visibility set.
C8_HitTestReturnsFirstVisible ==
  /\ \A x \in Coords, y \in Coords :
       HitIsFirstVisible(appState.uiElements, appState.selectedElements, scale, x, y,
                         FindHit(appState.uiElements, appState.selectedElements, scale, x, y))
  /\ ret.op = "handleCanvasMouseMove" => hoveredElement = ret.hit
  /\ (ret.op = "handleCanvasClick" /\ ret.hit # 0) =>
       ret.hit \in IdSet(appState.uiElements) \ appState.selectedElements

\* a click has hit the second element of the list although the first one is visible
C8_Witness ==
  /\ ret.op = "handleCanvasClick"
  /\ Len(appState.uiElements) = 2
  /\ ret.hit = appState.uiElements[2].id
  /\ appState.uiElements[1].id \in appState.selectedElements

\* C9: when several visible rectangles contain the pointer, the hit test
\* returns the topmost one: the one drawn last, the last of them in
\* element-array order.
C9_HitTestReturnsTopmost ==
  [][\A x \in Coords, y \in Coords :
       /\ handleCanvasClick(x, y) =>
            HitIsTopmost(appState.uiElements, appState.selectedElements, scale, x, y, ret'.hit)
       /\ handleCanvasMouseMove(x, y) =>
            HitIsTopmost(appState.uiElements, appState.selectedElements, scale, x, y, ret'.hit)
    ]_vars

\* C10: on every redraw the outlined elements are exactly the elements of
\* the list whose id is in the visibility set, in element-array order,
\* whatever their scaled size, and no label or hover tooltip is drawn for
\* an element outside the visibility set.
C10_RedrawShowsExactlyVisible ==
  isImageLoaded =>
    /\ drawn.boxes = VisibleIds(appState.uiElements, appState.selectedElements)
    /\ drawn.labels \subseteq appState.selectedElements
    /\ drawn.tooltip # 0 => drawn.tooltip \in appState.selectedElements

\* C11: when the image of the canvas renderer fails to decode, the renderer
\* never becomes Ready (isImageLoaded stays false, nothing is drawn), no new
\* decode is started, and a decode error is reported to the user.
C11_DecodeFailureReported ==
  (tree = "context" /\ appState.uploadedImage # 0 /\ ~imgPending /\ ~isImageLoaded) =>
     /\ drawn = Blank
     /\ redraws = 0
     /\ appState.error # "none"

\* C12: while the renderer is Ready, a change of the visibility set, of the
\* hovered id or of the scale is followed, within the step of the handler,
\* by exactly one redraw that shows the new state; nothing is drawn before
\* the renderer is Ready.
C12_OneRedrawPerChange ==
  [][tree = "context" =>
       /\ redraws' \in {0, 1}
       /\ (/\ isImageLoaded /\ isImageLoaded'
           /\ \/ appState'.selectedElements # appState.selectedElements
              \/ hoveredElement' # hoveredElement
              \/ scale' # scale) => redraws' = 1
       /\ redraws' = 1 =>
            /\ isImageLoaded'
            /\ drawn'.boxes = DrawBoxes(appState'.uiElements, appState'.selectedElements, scale')
            /\ drawn'.tooltip = hoveredElement'
       /\ ~isImageLoaded' => redraws' = 0 /\ drawn' = Blank
    ]_vars

\* the pointer has moved onto an element of a Ready canvas, which was redrawn
C12_Witness ==
  /\ ret.op = "handleCanvasMouseMove"
  /\ isImageLoaded
  /\ hoveredElement # 0
  /\ redraws = 1
  /\ drawn.tooltip = hoveredElement

\* C13: once every pending decode of the overlay has completed, the canvas
\* shows the boxes of the latest visibility set, whatever the order in which
\* the decodes completed.
C13_CanvasShowsLatestVisibility ==
  (tree = "overlay" /\ decodes = {}) =>
     /\ overlayCanvas.painted
     /\ overlayCanvas.boxes = VisibleIds(uiElements, visibleBoxes)

\* the scale that fits the image into the 800x600 viewport
FitsViewport(width, height, s) ==
  /\ FracLeq(s, One)
  /\ (width <= 800 /\ height <= 600) => s = One
  /\ (width > 800 \/ height > 600) =>
       /\ s.n * width <= 800 * s.d
       /\ s.n * height <= 600 * s.d
       /\ s.n * width = 800 * s.d \/ s.n * height = 600 * s.d

\* C14: in every state of the canvas after the image has loaded, after any
\* sequence of load, Zoom In, Zoom Out and Reset View, the scale is at most
\* 1, is 1 when the image fits into 800x600 and min(800/width, 600/height)
\* otherwise.
C14_ScaleFitsViewport ==
  (tree = "context" /\ isImageLoaded) =>
     FitsViewport(ImageWidth(appState.uploadedImage), ImageHeight(appState.uploadedImage), scale)


\* the string is [x1,y1][x2,y2] with four runs of digits and nothing else
IsBoundsString(str) ==
  LET n == Len(str)
      AllDigits(from, to) == from <= to /\ \A k \in from..to : IsDigit(str[k])
  IN  \E c1, m, c2 \in 1..n :
        /\ str[1] = "[" /\ str[c1] = "," /\ str[m] = "]"
        /\ m < n /\ str[m + 1] = "[" /\ str[c2] = "," /\ str[n] = "]"
        /\ AllDigits(2, c1 - 1) /\ AllDigits(c1 + 1, m - 1)
        /\ AllDigits(m + 2, c2 - 1) /\ AllDigits(c2 + 1, n - 1)

\* C15: parseBounds returns no rectangle for a string that is not exactly of
\* the form [x1,y1][x2,y2] (a bracket missing, a field that is no number, a
\* wrong number of fields, characters before or after the pattern), and an
\* entry whose bounds do not parse contributes no element.
C15_ParseBoundsRejectsMalformed ==
  /\ ret.op = "parseBounds" => (ret.result # Null => IsBoundsString(ret.boundsStr))
  /\ (ret.op = "handleFileUpload" /\ ret.processed) =>
       \A i \in DOMAIN appState.uiElements :
         \E j \in DOMAIN ret.text.entries :
           /\ ret.text.entries[j].key = appState.uiElements[i].id
           /\ IsBoundsString(ret.text.entries[j].bounds)

\* word occurs in str when letter case is ignored
OccursIgnoringCase(word, str) ==
  \E off \in 0..(Len(str) - Len(word)) :
    \A k \in 1..Len(word) : CharToLowerCase(str[off + k]) = CharToLowerCase(word[k])

\* the first category, in the order of the claim, one of whose keywords occurs
\* in the label
FirstCategory(label) ==
  LET order == <<"Button", "EditText", "TextView", "ImageView", "ViewGroup", "FrameLayout">>
      keywords(c) == Keywords[CHOOSE i \in DOMAIN Categories : Categories[i] = c]
      matching == {i \in DOMAIN order :
                     \E w \in DOMAIN keywords(order[i]) : OccursIgnoringCase(keywords(order[i])[w], label)}
  IN  IF label = NullString \/ label = <<>> \/ matching = {} THEN "Other"
      ELSE order[CHOOSE i \in matching : \A j \in matching : i <= j]

\* C16: getElementType returns the first category, in the order Button,
\* EditText, TextView, ImageView, ViewGroup, FrameLayout, one of whose
\* keywords occurs in the label whatever the letter case, and Other for an
\* empty or null label and for a label without keyword; the result is one
\* of the seven categories.
C16_FirstMatchingCategory ==
  ret.op = "getElementColor" =>
    /\ ret.type = FirstCategory(ret.className)
    /\ ret.type \in {"Button", "EditText", "TextView", "ImageView", "ViewGroup",
                     "FrameLayout", "Other"}

\* ImageButton holds keywords of two categories, in capitals: it is a Button
C16_Witness ==
  /\ ret.op = "getElementColor"
  /\ ret.className = <<"I", "m", "a", "g", "e", "B", "u", "t", "t", "o", "n">>
  /\ ret.type = "Button"

\* C17: every category has one colour, different categories have different
\* colours, and the colour the canvas draws a label with is the palette
\* colour of the category the classifier gives the label.
C17_CanvasColourIsPaletteColour ==
  /\ \A i, j \in DOMAIN Categories :
       /\ i # j => TypeColor(Categories[i]) # TypeColor(Categories[j])
       /\ TypeColor(Categories[i]) # TypeColor("Other")
  /\ ret.op = "getElementColor" => ret.canvasColor = TypeColor(ret.type)

\* C18: the priority of an ingested and classified entry is
\* min(7, base + 2 if the entry's clickable flag is true + 1 if its text is
\* not empty), base 5 for Button, 4 for EditText, 3 for TextView with text
\* and 2 without, 2 for ImageView, 1 otherwise; it is in 1..7.
C18_PriorityOfIngestedEntry ==
  ret.op = "classifyElement" =>
    LET e == ret.elementData
        type == ret.classified.type
        base == CASE type = "Button" -> 5
                  [] type = "EditText" -> 4
                  [] type = "TextView" -> (IF e.text # <<>> THEN 3 ELSE 2)
                  [] type = "ImageView" -> 2
                  [] OTHER -> 1
        sum == base + (IF e.clickable = JsString("true") THEN 2 ELSE 0)
                    + (IF e.text # <<>> THEN 1 ELSE 0)
    IN  /\ ret.classified.priority = (IF sum < 7 THEN sum ELSE 7)
        /\ ret.classified.priority \in 1..7

\* C19: processing a well-formed dump whose entries all have a bounds string
\* of the form [x1,y1][x2,y2] ends with status success, one element per
\* entry under the entry's key, and every one of these ids selected.
C19_WellFormedDumpIsIngested ==
  (/\ ret.op = "handleFileUpload" /\ ret.processed /\ ret.text.valid
   /\ \A j \in DOMAIN ret.text.entries : IsBoundsString(ret.text.entries[j].bounds)) =>
     /\ ret.status = "success"
     /\ Len(appState.uiElements) = Len(ret.text.entries)
     /\ IdSet(appState.uiElements) = {ret.text.entries[j].key : j \in DOMAIN ret.text.entries}
     /\ appState.selectedElements = IdSet(appState.uiElements)

\* the file is an image of at most 10MB
IsAcceptableImage(file) ==
  /\ Len(FileType(file)) >= 6
  /\ SubSeq(FileType(file), 1, 6) = <<"i", "m", "a", "g", "e", "/">>
  /\ FileSize(file) <= 10485760

\* C20: on every image upload path (ApiClient.uploadImage, the handler of
\* App, the file-select and drop handlers of ImageUpload) a file that is no
\* image or is larger than 10MB is rejected with an error and no request is
\* sent for it.
C20_BadImageFileIsRejected ==
  /\ (ret.op \in {"ApiClient.uploadImage", "handleFileSelect", "handleDrop"}
        /\ ~IsAcceptableImage(ret.file)) => (~ret.sent /\ ret.error # "none")
  /\ upload.kind = "image" => IsAcceptableImage(upload.file)
  /\ \A i \in DOMAIN imageUploads : IsAcceptableImage(imageUploads[i].file)


\* C21: a second upload of ImageUpload started while an earlier request waits
\* for its answer cancels nothing (a request leaves only by its own answer,
\* one per answer), and every successful answer puts its image and metadata
\* in the store, a failed one leaves them: after both answers the store holds
\* those of the answer that came last, whichever request was sent first.
C21_LastAnswerWins ==
  [][/\ (ret'.op \in {"handleDrop", "handleFileSelect"} /\ ret'.sent) =>
          imageUploads' = Append(imageUploads, [file |-> ret'.file, answeredLater |-> FALSE])
     /\ Len(imageUploads') < Len(imageUploads) =>
          /\ ret'.op = "uploadImage"
          /\ Len(imageUploads') = Len(imageUploads) - 1
     /\ (ret'.op = "uploadImage" /\ ret'.outcome = "success") =>
          /\ appState'.uploadedImage = ret'.file
          /\ appState'.imageMetadata = ret'.file
     /\ (ret'.op = "uploadImage" /\ ret'.outcome # "success") =>
          /\ appState'.uploadedImage = appState.uploadedImage
          /\ appState'.imageMetadata = appState.imageMetadata]_vars

\* both answers have come, the one of the request sent first came last and
\* its image is in the store
C21_Witness ==
  /\ tree = "context"
  /\ imageUploads = <<>>
  /\ ret.op = "uploadImage" /\ ret.outcome = "success" /\ ret.answeredLater
  /\ appState.uploadedImage = ret.file /\ appState.imageMetadata = ret.file


\* C22: every upload produces a new project id: no execution of the id
\* generation returns an id that an earlier execution returned, also for two
\* uploads of the same image and the same dump.
C22_EveryUploadGetsNewId ==
  ret.op = "uploadJson" => ret.outcome # "id taken"

\* C23: in every state of the store two projects with different ids have
\* different short ids, and each short id is DZ followed by the 8 characters
\* derived from its project id.
C23_ShortIdsUnique ==
  \A r1, r2 \in backend.rows :
    /\ r1.id # r2.id => r1.short_id # r2.short_id
    /\ r1.short_id = generate_short_id(r1.id)
    /\ Len(r1.short_id) = 10 /\ SubSeq(r1.short_id, 1, 2) = <<"D", "Z">>

\* a project is stored and the upload of another one, whose id differs and
\* whose short id is the same, has been refused
C23_Witness ==
  /\ ret.op = "uploadJson" /\ ret.outcome = "short_id taken"
  /\ \E r \in backend.rows : r.id # ret.id /\ r.short_id = ret.short_id


\* the selection after handleCanvasClick at (x, y)
SelectionAfterClick(selected, x, y) ==
  LET clickedElement == FindHit(appState.uiElements, selected, scale, x, y)
  IN  IF clickedElement # 0 THEN ToggledSet(selected, clickedElement) ELSE selected

\* C24: a click on the canvas inside the rectangle of an element toggles the
\* membership of that element in the selection, a selected one out and a
\* deselected one in, so that a second click at the same point restores the
\* selection there was before the first.
C24_ClickTogglesMembership ==
  CanvasRendered =>
    \A x \in Coords, y \in Coords :
      LET elements == appState.uiElements
          selected == appState.selectedElements
          inside == {i \in DOMAIN elements :
                       LET b == scaleCoordinates(elements[i].bounds, scale)
                       IN  x \in b.x1..b.x2 /\ y \in b.y1..b.y2}
          after == SelectionAfterClick(selected, x, y)
      IN  inside # {} =>
            /\ \E i \in inside : after = ToggledSet(selected, elements[i].id)
            /\ SelectionAfterClick(after, x, y) = selected


\* C25: retryRequest calls requestFn at most maxRetries times, one call after
\* the other with a wait between two calls and none after the last; it stops
\* at the first result with success true and returns it, returns the result
\* of the last attempt when no attempt succeeded and the last one resolved,
\* and throws what the last attempt threw, never what an earlier one threw.
C25_RetryRequest ==
  ret.op = "retryRequest" =>
    LET n == ret.maxRetries
        calls == {k \in DOMAIN ret.log : ret.log[k] = "call"}
        succeeded == {k \in 1..n : ret.outcomes[k] = "success"}
        last == IF succeeded # {} THEN CHOOSE k \in succeeded : \A j \in succeeded : k <= j
                ELSE n
    IN  /\ Cardinality(calls) <= n
        /\ Cardinality(calls) = last
        /\ \A k \in DOMAIN ret.log : ret.log[k] = (IF k % 2 = 1 THEN "call" ELSE "wait")
        /\ ret.log # <<>> => ret.log[Len(ret.log)] = "call"
        /\ ret.attempt = last
        /\ n = 0 => ret.kind = "undefined"
        /\ n > 0 => ret.kind = (IF ret.outcomes[last] = "throws" THEN "thrown" ELSE "returned")

\* two attempts threw, the third resolved to a failure: three calls, two
\* waits, the failure is returned
C25_Witness ==
  /\ ret.op = "retryRequest"
  /\ ret.outcomes = <<"throws", "throws", "failure">>
  /\ ret.log = <<"call", "wait", "call", "wait", "call">>
  /\ ret.kind = "returned" /\ ret.attempt = 3


\* C26: in every state the visibility set is a subset of the ids of the
\* current element list, so the number of included elements is at most the
\* number of elements.
C26_VisibleAreIdsOfList ==
  tree \in OverlayTrees =>
    /\ visibleBoxes \subseteq IdSet(uiElements)
    /\ Cardinality(visibleBoxes) <= Len(uiElements)


\* C27: in every state of the canvas the hovered element is none or an
\* element of the visibility set, and no hover tooltip is on the canvas for
\* an element that is not in it, in particular not after a click has taken
\* the hovered element out of the set.
C27_HoveredIsVisible ==
  tree = "context" =>
    /\ hoveredElement = 0 \/ hoveredElement \in appState.selectedElements
    /\ drawn.tooltip = 0 \/ drawn.tooltip \in appState.selectedElements


\* C28: one click on the checkbox of a checklist item changes the membership
\* of that element in the selection exactly once and leaves every other
\* element as it was: the handler of the checkbox and the handler of the row
\* do not both toggle for the same click.
C28_CheckboxClickTogglesOnce ==
  ret.op = "checkboxClick" =>
    appState.selectedElements = ToggledSet(ret.before, ret.elementId)


\* C29: every image or JSON upload of App that has started finishes in the
\* end with the loading flag false, when it succeeds and on every failure
\* path (rejected fetch, status not OK, success false, malformed body), as
\* long as the request resolves or rejects; the loading flag is true exactly
\* while an upload is under way, and the file inputs take a file exactly
\* while it is false.
C29_UploadsFinish ==
  /\ [](tree = "app" =>
          /\ isLoading <=> upload.kind # "none"
          /\ ~showBounds => (CanPickFile <=> ~isLoading))
  /\ \A outcome \in UploadOutcomes :
       [](ret.op \in {"handleImageUpload", "handleJsonUpload"} /\ ret.outcome = outcome
            => ~isLoading /\ upload.kind = "none")
  /\ (tree = "app" /\ upload.kind # "none") ~> (upload.kind = "none" /\ ~isLoading)

\* a JSON upload whose answer had a malformed body has finished
C29_Witness ==
  /\ tree = "app"
  /\ ret.op = "handleJsonUpload" /\ ret.outcome = "badBody"
  /\ ~isLoading /\ upload.kind = "none"


\* C30: whenever the annotation view is open with a project id, its image and
\* its element list are the image and the dump sent in the JSON upload that
\* created the project; no image or JSON upload that completes later leaves
\* the view with that project id and another image or element list.
C30_ViewShowsItsProject ==
  (tree = "project" /\ Mounted /\ currentProjectId # 0) =>
    \E r \in backend.rows :
      /\ r.id = currentProjectId
      /\ r.image = uploadedImage
      /\ r.elements = uiElements

====
